---- MODULE Spec2Model ----
(***************************************************************************)
(* Rule engine of the two-player card game (rust-core/src/game): the game  *)
(* state and its mutators (state.rs), the priority effect stack and its    *)
(* resolution (effects.rs) and the rule operations (rules.rs).             *)
(*                                                                         *)
(* Rust values are translated as follows.  Option<T> is a sequence of      *)
(* length 0 (None) or 1 (Some).  Vec<T> is a sequence.  A struct is a      *)
(* record; an enum value is a record with a "type" field, or a string when *)
(* it carries no data.  A &mut GameState method is an operator from the    *)
(* state to the new state (and to what the method returns).                *)
(***************************************************************************)
EXTENDS Integers, Sequences, FiniteSets, TLC

VARIABLES
    state,      \* the GameState the rule operations act on
    engine,     \* the RuleEngine: its EffectEngine's stack (heap, order)
    last,       \* the last call: operation, result, action (when it succeeded)
    returned,   \* the events the last call returned (empty on an error)
    resolved,   \* the stack items resolve_all popped during the last call
    calls,      \* the number of calls made so far
    decision,   \* the AiDecision of the last decide_action, None before it
    asked       \* the agent, player and clock of the last decide_action

vars == <<state, engine, last, returned, resolved, calls, decision, asked>>

----------------------------------------------------------------------------
(* Bounds of the model *)

\* the number of calls made on a game
MaxCalls == 3
\* max_hand_size and max_board_size of the initial states
HandLimit == 2
BoardLimit == 2
\* the longest replacement list a mulligan is called with
MaxReplacements == 2

----------------------------------------------------------------------------
(* Option and sequence helpers *)

\* let x = e in F(x): e is named once and F reads it any number of times
With(e, F(_)) == F(e)

None == <<>>
Some(x) == <<x>>
is_some(o) == o # <<>>
is_none(o) == o = <<>>
unwrap(o) == o[1]

Min(a, b) == IF a <= b THEN a ELSE b
Max(a, b) == IF a >= b THEN a ELSE b

\* Vec::remove(i), 1-based
RemoveAt(seq, i) == SubSeq(seq, 1, i - 1) \o SubSeq(seq, i + 1, Len(seq))

\* Iterator::position, 1-based, as an Option
first_of(I) == IF I = {} THEN None ELSE Some(CHOOSE i \in I : \A j \in I : i <= j)
position(seq, P(_)) == first_of({i \in DOMAIN seq : P(seq[i])})

\* the ids of a Vec<Card>, in order
ids(cards) == [i \in DOMAIN cards |-> cards[i].id]

RangeOf(seq) == {seq[i] : i \in DOMAIN seq}

\* i16::saturating_add (the amounts added are positive)
saturating_add(a, b) == Min(a + b, 32767)

\* u8::saturating_sub
saturating_sub(a, b) == Max(a - b, 0)

----------------------------------------------------------------------------
(* state.rs: cards, effects, events *)

DEFAULT_MAX_HAND_SIZE == 10
DEFAULT_MAX_BOARD_SIZE == 7

\* CardEffect::new (description omitted: no code reads it)
CardEffect_new(id, trigger, priority, kind) ==
    [id |-> id, trigger |-> trigger, priority |-> priority, kind |-> kind,
     condition |-> None]

with_condition(effect, condition) == [effect EXCEPT !.condition = Some(condition)]

DirectDamage(amount, target) ==
    [type |-> "DirectDamage", amount |-> amount, target |-> target]
Heal(amount, target) == [type |-> "Heal", amount |-> amount, target |-> target]
DrawCard(count, target) == [type |-> "DrawCard", count |-> count, target |-> target]
Composite(effects) == [type |-> "Composite", effects |-> effects]
Conditional(condition, effect) ==
    [type |-> "Conditional", condition |-> condition, effect |-> effect]

\* Card::new: a Unit is created exhausted (name omitted: no code reads it)
Card_new(id, cost, attack, health, card_type, effects) ==
    [id |-> id, cost |-> cost, attack |-> attack, health |-> health,
     card_type |-> card_type, exhausted |-> (card_type = "Unit"),
     effects |-> effects]

Player_new(id, health, armor, mana, hand, board, deck) ==
    [id |-> id, health |-> health, armor |-> armor, mana |-> mana,
     hand |-> hand, board |-> board, deck |-> deck]

\* GameState::new followed by with_phase and the public fields a host sets
GameState_new(players, current_player) ==
    [players |-> players, current_player |-> current_player, turn |-> 1,
     phase |-> "Mulligan", max_hand_size |-> DEFAULT_MAX_HAND_SIZE,
     max_board_size |-> DEFAULT_MAX_BOARD_SIZE, mulligan_completed |-> <<>>,
     event_log |-> <<>>, outcome |-> None]

with_phase(s, phase) == [s EXCEPT !.phase = phase]

\* GameEvent variants
CardDrawn(player_id, card_id) ==
    [type |-> "CardDrawn", player_id |-> player_id, card_id |-> card_id]
CardPlayed(player_id, card_id, target_id) ==
    [type |-> "CardPlayed", player_id |-> player_id, card_id |-> card_id,
     target_id |-> target_id]
AttackDeclared(attacker_owner, attacker_id, defender_owner, defender_id) ==
    [type |-> "AttackDeclared", attacker_owner |-> attacker_owner,
     attacker_id |-> attacker_id, defender_owner |-> defender_owner,
     defender_id |-> defender_id]
DamageResolved(source_player, source_card, target_player, target_card, amount) ==
    [type |-> "DamageResolved", source_player |-> source_player,
     source_card |-> source_card, target_player |-> target_player,
     target_card |-> target_card, amount |-> amount]
CardHealed(player_id, card_id, amount) ==
    [type |-> "CardHealed", player_id |-> player_id, card_id |-> card_id,
     amount |-> amount]
CardDestroyed(player_id, card) ==
    [type |-> "CardDestroyed", player_id |-> player_id, card |-> card]
CardBurned(player_id, card) ==
    [type |-> "CardBurned", player_id |-> player_id, card |-> card]
MulliganApplied(player_id, replaced) ==
    [type |-> "MulliganApplied", player_id |-> player_id, replaced |-> replaced]
TurnEnded(player_id) == [type |-> "TurnEnded", player_id |-> player_id]
GameWon(winner, reason) ==
    [type |-> "GameWon", winner |-> winner, reason |-> reason]

\* VictoryReason variants and VictoryState
HealthDepleted(loser) == [type |-> "HealthDepleted", loser |-> loser]
DeckOut(loser) == [type |-> "DeckOut", loser |-> loser]
Special(reason) == [type |-> "Special", reason |-> reason]
VictoryState(winner, reason) == [winner |-> winner, reason |-> reason]

----------------------------------------------------------------------------
(* state.rs: GameState accessors *)

record_event(s, event) == [s EXCEPT !.event_log = Append(@, event)]

player_index(s, id) == position(s.players, LAMBDA p : p.id = id)

has_player(s, id) == is_some(player_index(s, id))

\* get_player(id), for an id that has_player
get_player(s, id) == s.players[unwrap(player_index(s, id))]

opponent_of(s, player_id) ==
    With(position(s.players, LAMBDA p : p.id # player_id), LAMBDA i :
        IF is_none(i) THEN None ELSE Some(s.players[unwrap(i)].id))

is_finished(s) == is_some(s.outcome)

\* a state that reports no mulligan as completed
never_completed(s, player_id) == FALSE

mulligan_completed(s, player_id) == player_id \in RangeOf(s.mulligan_completed)

mark_mulligan_completed(s, player_id) ==
    IF mulligan_completed(s, player_id) THEN s
    ELSE [s EXCEPT !.mulligan_completed = Append(@, player_id)]

all_mulligans_completed(s) ==
    \A i \in DOMAIN s.players : mulligan_completed(s, s.players[i].id)

find_card_in_hand_index(player, card_id) ==
    position(player.hand, LAMBDA c : c.id = card_id)

find_card_on_board(player, card_id) ==
    position(player.board, LAMBDA c : c.id = card_id)

ready_board(player) ==
    [player EXCEPT !.board = [i \in DOMAIN @ |-> [@[i] EXCEPT !.exhausted = FALSE]]]

----------------------------------------------------------------------------
(* state.rs: the mutators.  Each returns the new state as field s, with    *)
(* the event or events the method returns as field ev.                     *)

\* a declare_victory that overwrites an outcome
declare_victory_again(s, winner, reason) ==
    [record_event(s, GameWon(winner, reason))
         EXCEPT !.outcome = Some(VictoryState(winner, reason))]

declare_victory(s, winner, reason) ==
    IF is_none(s.outcome)
    THEN [record_event(s, GameWon(winner, reason))
              EXCEPT !.outcome = Some(VictoryState(winner, reason))]
    ELSE s

\* a damage_player that armor does not protect from
damage_player_unarmored(s, source_player, source_card, target_player, amount) ==
    IF ~has_player(s, target_player) \/ amount <= 0 THEN [s |-> s, ev |-> None]
    ELSE
    With(unwrap(player_index(s, target_player)), LAMBDA i :
    With([s EXCEPT !.players[i].health = @ - amount], LAMBDA s1 :
        [s |-> IF s1.players[i].health <= 0
               THEN declare_victory(s1, unwrap(opponent_of(s1, target_player)),
                                    HealthDepleted(target_player))
               ELSE s1,
         ev |-> Some(DamageResolved(source_player, source_card, target_player,
                                    None, amount))]))

\* a damage_player that leaves the victory to a later evaluate_victory
damage_player_undeclared(s, source_player, source_card, target_player, amount) ==
    IF ~has_player(s, target_player) \/ amount <= 0 THEN [s |-> s, ev |-> None]
    ELSE
    With(unwrap(player_index(s, target_player)), LAMBDA i :
        [s |-> [s EXCEPT !.players[i].armor = @ - Min(amount, @),
                         !.players[i].health =
                             @ - (amount - Min(amount, s.players[i].armor))],
         ev |-> Some(DamageResolved(source_player, source_card, target_player,
                                    None, amount))])

damage_player(s, source_player, source_card, target_player, amount) ==
    IF ~has_player(s, target_player) THEN [s |-> s, ev |-> None]
    ELSE IF amount <= 0 THEN [s |-> s, ev |-> None]
    ELSE
    With(unwrap(player_index(s, target_player)), LAMBDA i :
    With(IF s.players[i].armor > 0 THEN Min(amount, s.players[i].armor) ELSE 0,
         LAMBDA absorbed :
    With([s EXCEPT !.players[i].armor = saturating_sub(@, absorbed),
                   !.players[i].health = IF amount - absorbed > 0
                                         THEN @ - (amount - absorbed) ELSE @],
         LAMBDA s1 :
    With(opponent_of(s1, target_player), LAMBDA winner :
        [s |-> IF s1.players[i].health <= 0 /\ is_some(winner)
               THEN declare_victory(s1, unwrap(winner), HealthDepleted(target_player))
               ELSE s1,
         ev |-> Some(DamageResolved(source_player, source_card, target_player,
                                    None, amount))]))))

damage_card(s, source_player, source_card, target_player, target_card, amount) ==
    IF amount <= 0 THEN [s |-> s, ev |-> <<>>]
    ELSE IF ~has_player(s, target_player) THEN [s |-> s, ev |-> <<>>]
    ELSE
    With(unwrap(player_index(s, target_player)), LAMBDA i :
    With(find_card_on_board(s.players[i], target_card), LAMBDA pos :
        IF is_none(pos) THEN [s |-> s, ev |-> <<>>]
        ELSE
        With([s.players[i].board[unwrap(pos)] EXCEPT !.health = @ - amount],
             LAMBDA card :
        With(DamageResolved(source_player, source_card, target_player,
                            Some(target_card), amount), LAMBDA dmg :
            IF card.health <= 0
            THEN [s |-> [s EXCEPT !.players[i].board = RemoveAt(@, unwrap(pos))],
                  ev |-> <<dmg, CardDestroyed(target_player, card)>>]
            ELSE [s |-> [s EXCEPT !.players[i].board[unwrap(pos)] = card],
                  ev |-> <<dmg>>]))))

heal_player(s, player_id, amount) ==
    IF amount <= 0 THEN [s |-> s, ev |-> None]
    ELSE IF ~has_player(s, player_id) THEN [s |-> s, ev |-> None]
    ELSE
    With(unwrap(player_index(s, player_id)), LAMBDA i :
        [s |-> [s EXCEPT !.players[i].health = saturating_add(@, amount)],
         ev |-> Some(CardHealed(player_id, None, amount))])

heal_card(s, player_id, card_id, amount) ==
    IF amount <= 0 THEN [s |-> s, ev |-> None]
    ELSE IF ~has_player(s, player_id) THEN [s |-> s, ev |-> None]
    ELSE
    With(unwrap(player_index(s, player_id)), LAMBDA i :
    With(find_card_on_board(s.players[i], card_id), LAMBDA pos :
        IF is_none(pos) THEN [s |-> s, ev |-> None]
        ELSE [s |-> [s EXCEPT !.players[i].board[unwrap(pos)].health =
                                    saturating_add(@, amount)],
              ev |-> Some(CardHealed(player_id, Some(card_id), amount))]))

\* a draw_card that adds the card to the hand whatever the hand's size
draw_card_unbounded(s, player_id) ==
    IF ~has_player(s, player_id) THEN [s |-> s, ev |-> None]
    ELSE
    With(unwrap(player_index(s, player_id)), LAMBDA i :
        IF s.players[i].deck = <<>>
        THEN With(opponent_of(s, player_id), LAMBDA winner :
                [s |-> IF is_some(winner)
                       THEN declare_victory(s, unwrap(winner), DeckOut(player_id))
                       ELSE s,
                 ev |-> None])
        ELSE
        With(s.players[i].deck[Len(s.players[i].deck)], LAMBDA card :
            [s |-> [s EXCEPT !.players[i].deck = SubSeq(@, 1, Len(@) - 1),
                             !.players[i].hand = Append(@, card)],
             ev |-> Some(CardDrawn(player_id, card.id))]))

\* a draw_card that lets a player with an empty deck go on
draw_card_without_loss(s, player_id) ==
    IF ~has_player(s, player_id) THEN [s |-> s, ev |-> None]
    ELSE
    With(unwrap(player_index(s, player_id)), LAMBDA i :
        IF s.players[i].deck = <<>> THEN [s |-> s, ev |-> None]
        ELSE
        With(s.players[i].deck[Len(s.players[i].deck)], LAMBDA card :
        With([s EXCEPT !.players[i].deck = SubSeq(@, 1, Len(@) - 1)], LAMBDA popped :
            IF Len(s.players[i].hand) >= s.max_hand_size
            THEN [s |-> popped, ev |-> Some(CardBurned(player_id, card))]
            ELSE [s |-> [popped EXCEPT !.players[i].hand = Append(@, card)],
                  ev |-> Some(CardDrawn(player_id, card.id))])))

draw_card(s, player_id) ==
    IF ~has_player(s, player_id) THEN [s |-> s, ev |-> None]
    ELSE
    With(unwrap(player_index(s, player_id)), LAMBDA i :
        IF s.players[i].deck = <<>>
        THEN With(opponent_of(s, player_id), LAMBDA winner :
                [s |-> IF is_some(winner)
                       THEN declare_victory(s, unwrap(winner), DeckOut(player_id))
                       ELSE s,
                 ev |-> None])
        ELSE
        With(s.players[i].deck[Len(s.players[i].deck)], LAMBDA card :
        With([s EXCEPT !.players[i].deck = SubSeq(@, 1, Len(@) - 1)], LAMBDA popped :
            IF Len(s.players[i].hand) >= s.max_hand_size
            THEN [s |-> popped, ev |-> Some(CardBurned(player_id, card))]
            ELSE [s |-> [popped EXCEPT !.players[i].hand = Append(@, card)],
                  ev |-> Some(CardDrawn(player_id, card.id))])))

\* a ready_player that adds the mana without the cap of 10
ready_player_uncapped(s, player_id) ==
    IF ~has_player(s, player_id) THEN s
    ELSE
    With(unwrap(player_index(s, player_id)), LAMBDA i :
    With([s EXCEPT !.players[i] = [ready_board(@) EXCEPT !.mana = @ + 1]],
         LAMBDA s1 :
        IF s1.players[i].deck # <<>>
        THEN With(draw_card(s1, player_id), LAMBDA d :
                 IF is_some(d.ev) THEN record_event(d.s, unwrap(d.ev)) ELSE d.s)
        ELSE s1))

ready_player(s, player_id) ==
    IF ~has_player(s, player_id) THEN s
    ELSE
    With(unwrap(player_index(s, player_id)), LAMBDA i :
    With([s EXCEPT !.players[i] = [ready_board(@) EXCEPT !.mana = Min(@ + 1, 10)]],
         LAMBDA s1 :
        IF s1.players[i].deck # <<>>
        THEN With(draw_card(s1, player_id), LAMBDA d :
                 IF is_some(d.ev) THEN record_event(d.s, unwrap(d.ev)) ELSE d.s)
        ELSE s1))

\* a phase cycle that goes from End back to Mulligan
state_advance_phase_to_mulligan(s) ==
    [s EXCEPT !.phase = CASE @ = "Mulligan" -> "Main"
                          [] @ = "Main" -> "Combat"
                          [] @ = "Combat" -> "End"
                          [] @ = "End" -> "Mulligan"]

state_advance_phase(s) ==
    [s EXCEPT !.phase = CASE @ = "Mulligan" -> "Main"
                          [] @ = "Main" -> "Combat"
                          [] @ = "Combat" -> "End"
                          [] @ = "End" -> "Main"]

state_end_turn(s) ==
    With(opponent_of(s, s.current_player), LAMBDA next_player :
        IF is_some(next_player)
        THEN ready_player([s EXCEPT !.current_player = unwrap(next_player),
                                    !.turn = @ + 1,
                                    !.phase = "Main"],
                          unwrap(next_player))
        ELSE s)

\* the first player of the game other than loser, for a loser of the game
winner_over(s, loser) == unwrap(opponent_of(s, loser))

\* returns the new state as s and the Option<VictoryState> as victory
evaluate_victory(s) ==
    IF is_some(s.outcome) THEN [s |-> s, victory |-> s.outcome]
    ELSE
    With(SelectSeq(s.players, LAMBDA p : p.health <= 0), LAMBDA defeated :
        IF Len(defeated) = 1 /\ is_some(opponent_of(s, defeated[1].id))
        THEN With(HealthDepleted(defeated[1].id), LAMBDA reason :
             With(winner_over(s, defeated[1].id), LAMBDA winner :
                 [s |-> declare_victory(s, winner, reason),
                  victory |-> Some(VictoryState(winner, reason))]))
        ELSE IF Len(defeated) > 1 /\ s.players # <<>>
        THEN With(Special("Simultaneous defeat"), LAMBDA reason :
                 [s |-> declare_victory(s, s.players[1].id, reason),
                  victory |-> Some(VictoryState(s.players[1].id, reason))])
        ELSE [s |-> s, victory |-> s.outcome])

\* the ids of the hand, board and deck cards of the first n players, in
\* integrity_check's order
RECURSIVE seen_ids(_, _)
seen_ids(s, n) ==
    IF n = 0 THEN <<>>
    ELSE seen_ids(s, n - 1)
         \o ids(s.players[n].hand \o s.players[n].board \o s.players[n].deck)

has_duplicate(seq) == \E a, b \in DOMAIN seq : a < b /\ seq[a] = seq[b]

\* integrity_check's loop from player i on: the first failing check is reported
RECURSIVE integrity_from(_, _)
integrity_from(s, i) ==
    IF i > Len(s.players) THEN None
    ELSE IF s.players[i].health < -99 THEN Some("NegativeHealth")
    ELSE IF s.players[i].mana > 20 THEN Some("ManaOutOfRange")
    ELSE IF has_duplicate(seen_ids(s, i)) THEN Some("DuplicateCardId")
    ELSE integrity_from(s, i + 1)

\* Ok(()) is None; an error is Some(the IntegrityError's type)
integrity_check(s) ==
    IF ~has_player(s, s.current_player) THEN Some("InvalidPlayerIndex")
    ELSE integrity_from(s, 1)

----------------------------------------------------------------------------
(* effects.rs: contexts, targets, conditions, effect kinds *)

EffectContext_new(trigger, source_player, current_player) ==
    [trigger |-> trigger, source_player |-> source_player, source_card |-> None,
     target_player |-> None, target_card |-> None,
     current_player |-> current_player]

with_source_card(ctx, card_id) == [ctx EXCEPT !.source_card = Some(card_id)]

with_target_player(ctx, player_id) == [ctx EXCEPT !.target_player = Some(player_id)]

with_target_card(ctx, player_id, card_id) ==
    [ctx EXCEPT !.target_player = Some(player_id), !.target_card = Some(card_id)]

resolve_player(target, ctx, s) ==
    CASE target = "ContextTarget" -> ctx.target_player
      [] target = "SourcePlayer" -> Some(ctx.source_player)
      [] target = "TargetPlayer" -> ctx.target_player
      [] target = "OpponentOfSource" -> opponent_of(s, ctx.source_player)

\* target.resolve_player(ctx, state).and_then(|id| state.get_player(id))
resolved_player(target, ctx, s) ==
    With(resolve_player(target, ctx, s), LAMBDA id :
        IF is_some(id) /\ has_player(s, unwrap(id))
        THEN Some(get_player(s, unwrap(id)))
        ELSE None)

RECURSIVE is_satisfied(_, _, _)
is_satisfied(condition, ctx, s) ==
    CASE condition.type = "PlayerHealthBelow" ->
            With(resolved_player(condition.target, ctx, s), LAMBDA p :
                is_some(p) /\ unwrap(p).health < condition.threshold)
      [] condition.type = "PlayerManaAtLeast" ->
            With(resolved_player(condition.target, ctx, s), LAMBDA p :
                is_some(p) /\ unwrap(p).mana >= condition.amount)
      [] condition.type = "BoardCountAtLeast" ->
            With(resolved_player(condition.target, ctx, s), LAMBDA p :
                is_some(p) /\ Len(unwrap(p).board) >= condition.min)
      [] condition.type = "Any" ->
            \E i \in DOMAIN condition.conditions :
                is_satisfied(condition.conditions[i], ctx, s)
      [] condition.type = "All" ->
            \A i \in DOMAIN condition.conditions :
                is_satisfied(condition.conditions[i], ctx, s)

RECURSIVE kind_can_trigger(_, _, _)
kind_can_trigger(kind, ctx, s) ==
    CASE kind.type \in {"DirectDamage", "Heal"} -> TRUE
      [] kind.type = "DrawCard" ->
            With(resolved_player(kind.target, ctx, s), LAMBDA p :
                is_some(p) /\ unwrap(p).deck # <<>>)
      [] kind.type = "Composite" ->
            \E i \in DOMAIN kind.effects : kind_can_trigger(kind.effects[i], ctx, s)
      [] kind.type = "Conditional" ->
            is_satisfied(kind.condition, ctx, s)
            /\ kind_can_trigger(kind.effect, ctx, s)

\* an EffectResolution: the state it left as s, its events as ev
Resolution(s, ev) == [s |-> s, ev |-> ev]

\* EffectResolution::extend, on the state the second resolution left
extend(first, second) == Resolution(second.s, first.ev \o second.ev)

\* DrawCard: draw_card repeated n times, the events collected
RECURSIVE draw_n(_, _, _)
draw_n(res, player_id, n) ==
    IF n = 0 THEN res
    ELSE draw_n(extend(res, draw_card(res.s, player_id)), player_id, n - 1)

\* EffectKind::apply: the new state as s, EffectResolution.events as ev
RECURSIVE kind_apply(_, _, _)
RECURSIVE apply_each(_, _, _, _)
kind_apply(kind, ctx, s) ==
    CASE kind.type = "DirectDamage" ->
            IF is_some(ctx.target_card)
            THEN IF is_some(ctx.target_player)
                 THEN damage_card(s, ctx.source_player, ctx.source_card,
                                  unwrap(ctx.target_player), unwrap(ctx.target_card),
                                  kind.amount)
                 ELSE Resolution(s, <<>>)
            ELSE With(resolve_player(kind.target, ctx, s), LAMBDA target_player :
                     IF is_some(target_player)
                     THEN damage_player(s, ctx.source_player, ctx.source_card,
                                        unwrap(target_player), kind.amount)
                     ELSE Resolution(s, <<>>))
      [] kind.type = "Heal" ->
            IF is_some(ctx.target_card)
            THEN IF is_some(ctx.target_player)
                 THEN heal_card(s, unwrap(ctx.target_player), unwrap(ctx.target_card),
                                kind.amount)
                 ELSE Resolution(s, <<>>)
            ELSE With(resolve_player(kind.target, ctx, s), LAMBDA target_player :
                     IF is_some(target_player)
                     THEN heal_player(s, unwrap(target_player), kind.amount)
                     ELSE Resolution(s, <<>>))
      [] kind.type = "DrawCard" ->
            With(resolve_player(kind.target, ctx, s), LAMBDA target_player :
                IF is_some(target_player)
                THEN draw_n(Resolution(s, <<>>), unwrap(target_player), kind.count)
                ELSE Resolution(s, <<>>))
      [] kind.type = "Composite" -> apply_each(kind.effects, ctx, Resolution(s, <<>>), 1)
      [] kind.type = "Conditional" ->
            IF is_satisfied(kind.condition, ctx, s)
            THEN kind_apply(kind.effect, ctx, s)
            ELSE Resolution(s, <<>>)

\* Composite: the sub-effects from index i on, applied in order
apply_each(effects, ctx, res, i) ==
    IF i > Len(effects) THEN res
    ELSE apply_each(effects, ctx, extend(res, kind_apply(effects[i], ctx, res.s)), i + 1)

\* a can_trigger that is false once the game is decided
can_trigger_while_undecided(effect, ctx, s) ==
    IF is_finished(s) THEN FALSE
    ELSE IF is_some(effect.condition) /\ ~is_satisfied(unwrap(effect.condition), ctx, s)
    THEN FALSE
    ELSE kind_can_trigger(effect.kind, ctx, s)

\* CardEffect::can_trigger
effect_can_trigger(effect, ctx, s) ==
    IF is_some(effect.condition) /\ ~is_satisfied(unwrap(effect.condition), ctx, s)
    THEN FALSE
    ELSE kind_can_trigger(effect.kind, ctx, s)

\* CardEffect::apply
effect_apply(effect, ctx, s) == kind_apply(effect.kind, ctx, s)

----------------------------------------------------------------------------
(* effects.rs: the stack and the engine.  An EffectEngine is its stack: a  *)
(* record of the heap's items (a set: their order fields differ) and the   *)
(* order counter.                                                          *)

EffectEngine_default == [heap |-> {}, order |-> 0]

\* a comparison that lets the later push win among equal priorities
StackItem_newest_first(a, b) ==
    \/ a.priority > b.priority
    \/ a.priority = b.priority /\ a.order > b.order

\* StackItem::cmp(a, b) = Greater
StackItem_greater(a, b) ==
    \/ a.priority > b.priority
    \/ a.priority = b.priority /\ b.order > a.order

EffectStack_push(eng, effect, context) ==
    [heap |-> eng.heap \cup {[entry_id |-> effect.id, priority |-> effect.priority,
                              order |-> eng.order + 1, effect |-> effect,
                              context |-> context]},
     order |-> eng.order + 1]

\* BinaryHeap::pop: the greatest item, for a non-empty heap
EffectStack_top(eng) ==
    CHOOSE a \in eng.heap : \A b \in eng.heap \ {a} : StackItem_greater(a, b)

\* queue_card_effects' loop from effect i on
RECURSIVE queue_effects_from(_, _, _, _)
queue_effects_from(eng, effects, base_context, i) ==
    IF i > Len(effects) THEN eng
    ELSE queue_effects_from(
             IF effects[i].trigger = base_context.trigger
             THEN EffectStack_push(eng, effects[i], base_context)
             ELSE eng,
             effects, base_context, i + 1)

\* a queue_card_effects whose items take order numbers ahead of every item
\* pushed before them
queue_card_effects_front(eng, card, base_context) ==
    With(queue_effects_from([heap |-> {}, order |-> eng.order], card.effects,
                            base_context, 1), LAMBDA queued :
        [heap |-> eng.heap \cup {[x EXCEPT !.order = 0 - @] : x \in queued.heap},
         order |-> queued.order])

queue_card_effects(eng, card, base_context) ==
    queue_effects_from(eng, card.effects, base_context, 1)

\* the context resolve_all builds for the OnDeath effects of a destroyed card
death_context(event, s) ==
    with_source_card(EffectContext_new("OnDeath", event.player_id, s.current_player),
                     event.card.id)

\* the body of resolve_all's inner for loop, from event i on: every event of a
\* resolution is recorded, and a CardDestroyed event queues the dead card's
\* OnDeath effects.  The engine as eng, the state as s.
RECURSIVE record_resolution(_, _, _, _)
record_resolution(eng, s, events, i) ==
    IF i > Len(events) THEN [eng |-> eng, s |-> s]
    ELSE record_resolution(
             IF events[i].type = "CardDestroyed"
             THEN queue_card_effects(eng, events[i].card, death_context(events[i], s))
             ELSE eng,
             record_event(s, events[i]), events, i + 1)

\* what resolve_all notes of an item it popped: the item's fields, the order
\* fields of the items the pop left on the heap as pending, and whether the
\* item's effect was applied (can_trigger held)
Popped(item, left, applied) ==
    [entry_id |-> item.entry_id, priority |-> item.priority, order |-> item.order,
     trigger |-> item.context.trigger, source_card |-> item.context.source_card,
     pending |-> {x.order : x \in left}, applied |-> applied]

\* a pass of resolve_all's while loop and the passes after it.  acc is the
\* engine as eng, the state as s, the events to return as ev and the items
\* popped, in order, as popped
RECURSIVE resolve_loop(_)
resolve_loop(acc) ==
    IF acc.eng.heap = {} THEN acc
    ELSE
    With(EffectStack_top(acc.eng), LAMBDA item :
    With([acc.eng EXCEPT !.heap = @ \ {item}], LAMBDA eng1 :
        IF ~effect_can_trigger(item.effect, item.context, acc.s)
        THEN resolve_loop([acc EXCEPT !.eng = eng1,
                                      !.popped = Append(@, Popped(item, eng1.heap, FALSE))])
        ELSE
        With(effect_apply(item.effect, item.context, acc.s), LAMBDA resolution :
        With(record_resolution(eng1, resolution.s, resolution.ev, 1), LAMBDA rec :
            resolve_loop([eng |-> rec.eng, s |-> rec.s,
                          ev |-> acc.ev \o resolution.ev,
                          popped |-> Append(acc.popped, Popped(item, eng1.heap, TRUE))])))))

\* a resolve_all that resolves the top item and what its resolution queued,
\* and leaves the other items on the stack
resolve_all_top_only(eng, s) ==
    IF eng.heap = {} THEN [eng |-> eng, s |-> s, ev |-> <<>>, popped |-> <<>>]
    ELSE With(resolve_loop([eng |-> [eng EXCEPT !.heap = {EffectStack_top(eng)}],
                            s |-> s, ev |-> <<>>, popped |-> <<>>]), LAMBDA r :
             [r EXCEPT !.eng.heap = eng.heap \ {EffectStack_top(eng)}])

resolve_all(eng, s) ==
    resolve_loop([eng |-> eng, s |-> s, ev |-> <<>>, popped |-> <<>>])

----------------------------------------------------------------------------
(* rules.rs: the rule operations.  Each returns the engine as eng, the     *)
(* state as s, "Ok" or the RuleError's type as result, the returned events *)
(* as ev (empty on an error) and the items resolve_all popped as popped.   *)

Return(eng, s, result, ev, popped) ==
    [eng |-> eng, s |-> s, result |-> result, ev |-> ev, popped |-> popped]

Fail(eng, s, error) == Return(eng, s, error, <<>>, <<>>)

\* a resolution that hands the events on as they were returned
RuleResolution_as_returned(s, events) ==
    [state |-> s, events |-> events, victory |-> s.outcome]

\* RuleResolution::new
RuleResolution_new(s, events) ==
    [state |-> s,
     events |-> IF is_some(s.outcome) /\ \A i \in DOMAIN events : events[i].type # "GameWon"
                THEN Append(events, GameWon(unwrap(s.outcome).winner,
                                            unwrap(s.outcome).reason))
                ELSE events,
     victory |-> s.outcome]

\* a turn check that lets either player act
any_turn_owner(s, player_id) == TRUE

\* ensure_turn_owner(state, player_id) is Ok
ensure_turn_owner(s, player_id) == s.current_player = player_id

\* the GameWon event a rule operation pushes to its events after evaluate_victory
victory_events(victory) ==
    IF is_some(victory)
    THEN <<GameWon(unwrap(victory).winner, unwrap(victory).reason)>>
    ELSE <<>>

\* the end of play_card and of attack: resolve the stack, append its events to
\* the events so far, evaluate victory and push its GameWon event
resolve_and_evaluate(eng, s, events) ==
    With(resolve_all(eng, s), LAMBDA res :
    With(evaluate_victory(res.s), LAMBDA v :
        Return(res.eng, v.s, "Ok", events \o res.ev \o victory_events(v.victory),
               res.popped)))

RECURSIVE requires_target_kind(_)
requires_target_kind(kind) ==
    CASE kind.type \in {"DirectDamage", "Heal", "DrawCard"} ->
            kind.target = "ContextTarget"
      [] kind.type = "Composite" ->
            \E i \in DOMAIN kind.effects : requires_target_kind(kind.effects[i])
      [] kind.type = "Conditional" -> requires_target_kind(kind.effect)

requires_target(card) ==
    \E i \in DOMAIN card.effects : requires_target_kind(card.effects[i].kind)

build_context(action, s) ==
    With(with_source_card(
             EffectContext_new("OnPlay", action.player_id, s.current_player),
             action.card_id), LAMBDA ctx :
        IF is_some(action.target_player)
        THEN IF is_some(action.target_card)
             THEN with_target_card(ctx, unwrap(action.target_player),
                                   unwrap(action.target_card))
             ELSE with_target_player(ctx, unwrap(action.target_player))
        ELSE ctx)

\* queue_card_effects for the cards of a board snapshot from card i on, each with
\* the context of the trigger whose source card is that card
RECURSIVE queue_board_from(_, _, _, _, _, _)
queue_board_from(eng, board_snapshot, trigger, player_id, current_player, i) ==
    IF i > Len(board_snapshot) THEN eng
    ELSE queue_board_from(
             queue_card_effects(eng, board_snapshot[i],
                 with_source_card(EffectContext_new(trigger, player_id, current_player),
                                  board_snapshot[i].id)),
             board_snapshot, trigger, player_id, current_player, i + 1)

\* a turn change that queues nothing for the units on the board
queue_no_board_effects(eng, s, trigger, player_id) == eng

queue_board_effects(eng, s, trigger, player_id) ==
    IF ~has_player(s, player_id) THEN eng
    ELSE queue_board_from(eng, get_player(s, player_id).board, trigger, player_id,
                          s.current_player, 1)

\* a process_turn_start that readies the player before the effects are resolved
process_turn_start_readied_first(eng, s, player_id) ==
    With(ready_player([s EXCEPT !.current_player = player_id, !.phase = "Main"],
                      player_id), LAMBDA s1 :
        IF is_some(integrity_check(s1)) THEN Fail(eng, s1, "IntegrityViolation")
        ELSE
        With(resolve_all(queue_board_effects(eng, s1, "OnTurnStart", player_id), s1),
             LAMBDA res :
        With(evaluate_victory(res.s), LAMBDA v :
            Return(res.eng, v.s, "Ok", res.ev \o victory_events(v.victory),
                   res.popped))))

process_turn_start(eng, s, player_id) ==
    With([s EXCEPT !.current_player = player_id, !.phase = "Main"], LAMBDA s1 :
        IF is_some(integrity_check(s1)) THEN Fail(eng, s1, "IntegrityViolation")
        ELSE
        With(resolve_all(queue_board_effects(eng, s1, "OnTurnStart", player_id), s1),
             LAMBDA res :
            IF is_finished(res.s)
            THEN Return(res.eng, res.s, "Ok", res.ev, res.popped)
            ELSE With(evaluate_victory(ready_player(res.s, player_id)), LAMBDA v :
                     Return(res.eng, v.s, "Ok", res.ev \o victory_events(v.victory),
                            res.popped))))

\* a play_card that never finds the board full
board_never_full(s, i, card) == FALSE

\* play_card's test for BoardFull: a Unit for a board of max_board_size cards
board_full(s, i, card) ==
    card.card_type = "Unit" /\ Len(s.players[i].board) >= s.max_board_size

\* a play_card that plays a copy of the card and leaves the card in the hand
leave_in_hand(s, i, hand_index) == s

\* state.players[player_index].hand.remove(hand_index)
take_from_hand(s, i, hand_index) ==
    [s EXCEPT !.players[i].hand = RemoveAt(@, hand_index)]

\* play_card once the card is found in the hand, at hand_index of player i
play_found(eng, s, action, i, hand_index) ==
    With(s.players[i].hand[hand_index], LAMBDA card :
        IF s.players[i].mana < card.cost THEN Fail(eng, s, "InsufficientMana")
        ELSE IF board_full(s, i, card) THEN Fail(eng, s, "BoardFull")
        ELSE
        With(take_from_hand(s, i, hand_index), LAMBDA removed :
            IF requires_target(card) /\ is_none(action.target_player)
               /\ is_none(action.target_card)
            THEN Fail(eng, removed, "InvalidTarget")
            ELSE
            With(CardPlayed(action.player_id, card.id, action.target_card),
                 LAMBDA play_event :
            With(record_event([removed EXCEPT !.players[i].mana = @ - card.cost],
                              play_event), LAMBDA s1 :
                IF card.card_type = "Unit"
                THEN With([card EXCEPT !.exhausted = TRUE], LAMBDA board_card :
                         resolve_and_evaluate(
                             queue_card_effects(eng, board_card, build_context(action, s1)),
                             [s1 EXCEPT !.players[i].board = Append(@, board_card)],
                             <<play_event>>))
                ELSE resolve_and_evaluate(
                         queue_card_effects(eng, card, build_context(action, s1)),
                         s1, <<play_event>>)))))

play_card(eng, s, action) ==
    IF is_finished(s) THEN Fail(eng, s, "GameFinished")
    ELSE IF is_some(integrity_check(s)) THEN Fail(eng, s, "IntegrityViolation")
    ELSE IF ~ensure_turn_owner(s, action.player_id) THEN Fail(eng, s, "NotPlayerTurn")
    ELSE IF s.phase # "Main" THEN Fail(eng, s, "InvalidPhase")
    ELSE IF is_some(action.target_card) /\ is_none(action.target_player)
    THEN Fail(eng, s, "InvalidTarget")
    ELSE IF is_some(action.target_player)
            /\ ~has_player(s, unwrap(action.target_player))
    THEN Fail(eng, s, "InvalidTarget")
    ELSE IF is_some(action.target_player) /\ is_some(action.target_card)
            /\ is_none(find_card_on_board(get_player(s, unwrap(action.target_player)),
                                          unwrap(action.target_card)))
    THEN Fail(eng, s, "InvalidTarget")
    ELSE IF ~has_player(s, action.player_id) THEN Fail(eng, s, "CardNotFound")
    ELSE
    With(unwrap(player_index(s, action.player_id)), LAMBDA i :
    With(find_card_in_hand_index(s.players[i], action.card_id), LAMBDA hand_index :
        IF is_none(hand_index) THEN Fail(eng, s, "CardNotFound")
        ELSE play_found(eng, s, action, i, unwrap(hand_index))))

\* state.record_event for every event of a list, in order
record_events(s, events) == [s EXCEPT !.event_log = @ \o events]

\* a damage_card call of attack, its events recorded: the state as s, the events
\* of this call appended to those of the calls before it as ev
combat_damage(before, source_player, source_card, target_player, target_card, amount) ==
    With(damage_card(before.s, source_player, source_card, target_player, target_card,
                     amount), LAMBDA dmg :
        [s |-> record_events(dmg.s, dmg.ev), ev |-> before.ev \o dmg.ev])

\* a combat in which only a defender that survived the hit retaliates
combat_of_survivors(s, action, attacker, defender_card) ==
    With(combat_damage([s |-> s, ev |-> <<>>], action.attacker_owner,
                       Some(attacker.id), action.defender_owner, defender_card.id,
                       attacker.attack), LAMBDA hit :
        IF defender_card.health > attacker.attack /\ defender_card.attack > 0
        THEN combat_damage(hit, action.defender_owner, Some(defender_card.id),
                           action.attacker_owner, action.attacker_id,
                           defender_card.attack)
        ELSE hit)

\* attack's damage to a defending card, and the retaliation of a defending unit
\* with its attack value of before the damage
combat(s, action, attacker, defender_card) ==
    With(combat_damage([s |-> s, ev |-> <<>>], action.attacker_owner,
                       Some(attacker.id), action.defender_owner, defender_card.id,
                       attacker.attack), LAMBDA hit :
        IF defender_card.card_type = "Unit" /\ defender_card.attack > 0
        THEN combat_damage(hit, action.defender_owner, Some(defender_card.id),
                           action.attacker_owner, action.attacker_id,
                           defender_card.attack)
        ELSE hit)

\* attack's damage to the defending player, its event recorded
face_damage(s, action, attacker) ==
    With(damage_player(s, action.attacker_owner, Some(action.attacker_id),
                       action.defender_owner, attacker.attack), LAMBDA dmg :
        [s |-> record_events(dmg.s, dmg.ev), ev |-> dmg.ev])

\* an attack that leaves its attacker ready
exhaust_skipped(s, attacker_index, attacker_pos) == s

\* state.players[attacker_index].board[attacker_pos].exhausted = true
exhaust(s, attacker_index, attacker_pos) ==
    [s EXCEPT !.players[attacker_index].board[attacker_pos].exhausted = TRUE]

\* attack once the attacker passed its checks: attacker_card_info is the card
\* at attacker_pos of the board of player attacker_index
attack_declared(eng, s, action, attacker_index, attacker_pos, attacker_card_info) ==
    With(with_source_card(
             EffectContext_new("OnAttack", action.attacker_owner, s.current_player),
             attacker_card_info.id), LAMBDA ctx :
    With(queue_card_effects(eng, attacker_card_info,
             IF is_some(action.defender_card)
             THEN with_target_card(ctx, action.defender_owner,
                                   unwrap(action.defender_card))
             ELSE with_target_player(ctx, action.defender_owner)), LAMBDA queued :
    With(AttackDeclared(action.attacker_owner, action.attacker_id,
                        action.defender_owner, action.defender_card),
         LAMBDA attack_event :
    With(exhaust(record_event(s, attack_event), attacker_index, attacker_pos),
         LAMBDA s1 :
        IF is_some(action.defender_card)
        THEN With(get_player(s1, action.defender_owner), LAMBDA defender :
             With(find_card_on_board(defender, unwrap(action.defender_card)),
                  LAMBDA defender_pos :
                 IF is_none(defender_pos) THEN Fail(queued, s1, "InvalidTarget")
                 ELSE With(combat(s1, action, attacker_card_info,
                                  defender.board[unwrap(defender_pos)]), LAMBDA dmg :
                          resolve_and_evaluate(queued, dmg.s,
                                               <<attack_event>> \o dmg.ev))))
        ELSE With(face_damage(s1, action, attacker_card_info), LAMBDA dmg :
                 resolve_and_evaluate(queued, dmg.s, <<attack_event>> \o dmg.ev))))))

attack(eng, s, action) ==
    IF is_finished(s) THEN Fail(eng, s, "GameFinished")
    ELSE IF is_some(integrity_check(s)) THEN Fail(eng, s, "IntegrityViolation")
    ELSE IF ~ensure_turn_owner(s, action.attacker_owner)
    THEN Fail(eng, s, "NotPlayerTurn")
    ELSE IF s.phase # "Combat" THEN Fail(eng, s, "InvalidPhase")
    ELSE IF ~has_player(s, action.defender_owner) THEN Fail(eng, s, "InvalidTarget")
    ELSE IF action.defender_owner = action.attacker_owner
    THEN Fail(eng, s, "InvalidAttackTarget")
    ELSE IF ~has_player(s, action.attacker_owner) THEN Fail(eng, s, "AttackerNotFound")
    ELSE
    With(unwrap(player_index(s, action.attacker_owner)), LAMBDA attacker_index :
    With(find_card_on_board(s.players[attacker_index], action.attacker_id),
         LAMBDA attacker_pos :
        IF is_none(attacker_pos) THEN Fail(eng, s, "AttackerNotFound")
        ELSE
        With(s.players[attacker_index].board[unwrap(attacker_pos)],
             LAMBDA attacker_card_info :
            IF attacker_card_info.card_type # "Unit"
            THEN Fail(eng, s, "CardTypeMismatch")
            ELSE IF attacker_card_info.exhausted THEN Fail(eng, s, "UnitExhausted")
            ELSE IF attacker_card_info.attack <= 0 THEN Fail(eng, s, "ZeroAttackUnit")
            ELSE attack_declared(eng, s, action, attacker_index, unwrap(attacker_pos),
                                 attacker_card_info))))

\* sort_unstable followed by dedup: the distinct ids in ascending order
RECURSIVE sort_dedup_set(_)
sort_dedup_set(S) ==
    IF S = {} THEN <<>>
    ELSE With(CHOOSE x \in S : \A y \in S : x <= y, LAMBDA m :
             <<m>> \o sort_dedup_set(S \ {m}))

sort_dedup(seq) == sort_dedup_set(RangeOf(seq))

\* a replacement that copies the card to the deck and leaves it in the hand
to_deck_bottom_copy(s, i, pos) ==
    [s EXCEPT !.players[i].deck = <<s.players[i].hand[pos]>> \o @]

\* hand.remove(pos) and deck.insert(0, card) for player i
to_deck_bottom(s, i, pos) ==
    [s EXCEPT !.players[i].hand = RemoveAt(@, pos),
              !.players[i].deck = <<s.players[i].hand[pos]>> \o @]

\* mulligan's loop over unique_replacements from index k on: the state as s, the
\* ids replaced so far as replaced_ids, and the id not found (if any) as missing
RECURSIVE replace_cards(_, _, _, _, _)
replace_cards(s, i, unique_replacements, k, replaced_ids) ==
    IF k > Len(unique_replacements)
    THEN [s |-> s, replaced_ids |-> replaced_ids, missing |-> None]
    ELSE
    With(find_card_in_hand_index(s.players[i], unique_replacements[k]), LAMBDA pos :
        IF is_none(pos)
        THEN [s |-> s, replaced_ids |-> replaced_ids,
              missing |-> Some(unique_replacements[k])]
        ELSE replace_cards(to_deck_bottom(s, i, unwrap(pos)), i, unique_replacements,
                           k + 1, Append(replaced_ids, unique_replacements[k])))

\* a mulligan that draws no replacement
redraw_one_skipped(before, player_id) == before

\* a replacement draw of mulligan: the event drawn is recorded and returned
redraw_one(before, player_id) ==
    With(draw_card(before.s, player_id), LAMBDA d :
        [s |-> record_events(d.s, d.ev), ev |-> before.ev \o d.ev])

\* mulligan's loop of n replacement draws
RECURSIVE redraw(_, _, _)
redraw(before, player_id, n) ==
    IF n = 0 THEN before ELSE redraw(redraw_one(before, player_id), player_id, n - 1)

\* the end of mulligan: the player marked, the event recorded, turn 0 made 1
mulligan_applied(s, player_id, mulligan_event) ==
    With(record_event(mark_mulligan_completed(s, player_id), mulligan_event),
         LAMBDA s1 :
        IF all_mulligans_completed(s1) /\ s1.turn = 0 THEN [s1 EXCEPT !.turn = 1]
        ELSE s1)

mulligan(eng, s, action) ==
    IF is_finished(s) THEN Fail(eng, s, "GameFinished")
    ELSE IF is_some(integrity_check(s)) THEN Fail(eng, s, "IntegrityViolation")
    ELSE IF s.phase # "Mulligan" THEN Fail(eng, s, "MulliganPhaseOnly")
    ELSE IF ~has_player(s, action.player_id) THEN Fail(eng, s, "PlayerNotFound")
    ELSE IF mulligan_completed(s, action.player_id)
    THEN Fail(eng, s, "MulliganAlreadyCompleted")
    ELSE
    With(replace_cards(s, unwrap(player_index(s, action.player_id)),
                       sort_dedup(action.replacements), 1, <<>>), LAMBDA rep :
        IF is_some(rep.missing) THEN Fail(eng, rep.s, "CardNotFound")
        ELSE
        With(redraw([s |-> rep.s, ev |-> <<>>], action.player_id, Len(rep.replaced_ids)),
             LAMBDA drawn :
        With(MulliganApplied(action.player_id, rep.replaced_ids), LAMBDA mulligan_event :
            Return(eng, mulligan_applied(drawn.s, action.player_id, mulligan_event),
                   "Ok", drawn.ev \o <<mulligan_event>>, <<>>))))

start_turn(eng, s, player_id) ==
    IF is_finished(s) THEN Fail(eng, s, "GameFinished")
    ELSE IF is_some(integrity_check(s)) THEN Fail(eng, s, "IntegrityViolation")
    ELSE IF ~has_player(s, player_id) THEN Fail(eng, s, "PlayerNotFound")
    ELSE process_turn_start(eng, s, player_id)

\* end_turn after its victory check found no winner: ended is what the call did
\* so far (its state, events and popped items), current the player whose turn ended
next_turn(ended, current) ==
    With(opponent_of(ended.s, current), LAMBDA next_player :
    With(state_end_turn(ended.s), LAMBDA s1 :
        IF is_finished(s1) THEN [ended EXCEPT !.s = s1]
        ELSE IF is_some(next_player) /\ has_player(s1, unwrap(next_player))
        THEN With(process_turn_start(ended.eng, s1, unwrap(next_player)),
                  LAMBDA started :
                 IF started.result # "Ok"
                 THEN Fail(started.eng, started.s, started.result)
                 ELSE Return(started.eng, started.s, "Ok", ended.ev \o started.ev,
                             ended.popped \o started.popped))
        ELSE [ended EXCEPT !.s = s1]))

\* an end_turn that goes on to the next turn without its victory check
end_turn_without_victory_check(eng, s) ==
    IF is_finished(s) THEN Fail(eng, s, "GameFinished")
    ELSE IF is_some(integrity_check(s)) THEN Fail(eng, s, "IntegrityViolation")
    ELSE
    With(resolve_all(queue_board_effects(eng, s, "OnTurnEnd", s.current_player), s),
         LAMBDA res :
    With(TurnEnded(s.current_player), LAMBDA end_event :
        next_turn(Return(res.eng, record_event(res.s, end_event), "Ok",
                         res.ev \o <<end_event>>, res.popped),
                  s.current_player)))

end_turn(eng, s) ==
    IF is_finished(s) THEN Fail(eng, s, "GameFinished")
    ELSE IF is_some(integrity_check(s)) THEN Fail(eng, s, "IntegrityViolation")
    ELSE
    With(resolve_all(queue_board_effects(eng, s, "OnTurnEnd", s.current_player), s),
         LAMBDA res :
    With(TurnEnded(s.current_player), LAMBDA end_event :
    With(evaluate_victory(record_event(res.s, end_event)), LAMBDA v :
        IF is_some(v.victory)
        THEN Return(res.eng, v.s, "Ok",
                    res.ev \o <<end_event>> \o victory_events(v.victory), res.popped)
        ELSE next_turn(Return(res.eng, v.s, "Ok", res.ev \o <<end_event>>, res.popped),
                       s.current_player))))

\* an advance_phase that does not test is_finished
advance_phase_unchecked(eng, s) ==
    IF is_some(integrity_check(s)) THEN Fail(eng, s, "IntegrityViolation")
    ELSE Return(eng, state_advance_phase(s), "Ok", <<>>, <<>>)

\* RuleEngine::advance_phase: the phase returned is the new state's phase
advance_phase(eng, s) ==
    IF is_finished(s) THEN Fail(eng, s, "GameFinished")
    ELSE IF is_some(integrity_check(s)) THEN Fail(eng, s, "IntegrityViolation")
    ELSE Return(eng, state_advance_phase(s), "Ok", <<>>, <<>>)

----------------------------------------------------------------------------
(* The cards of the initial states: the effects of GameState::sample, on   *)
(* cards with small costs, attacks and healths.                            *)

Fireball ==
    Card_new(1, 2, 0, 0, "Spell",
             <<CardEffect_new(101, "OnPlay", 5, DirectDamage(3, "ContextTarget"))>>)
Footman ==
    Card_new(2, 1, 1, 2, "Unit",
             <<CardEffect_new(201, "OnTurnEnd", 3, Heal(1, "SourcePlayer"))>>)
Scholar ==
    Card_new(3, 1, 2, 3, "Unit",
             <<CardEffect_new(102, "OnPlay", 4, DrawCard(1, "SourcePlayer"))>>)
Golem ==
    Card_new(4, 2, 2, 3, "Unit",
             <<CardEffect_new(202, "OnDeath", 4, Heal(3, "SourcePlayer"))>>)
Meteor ==
    Card_new(6, 2, 0, 0, "Spell",
             <<CardEffect_new(203, "OnPlay", 5,
                   Composite(<<DirectDamage(3, "OpponentOfSource"),
                               DrawCard(1, "SourcePlayer")>>))>>)
Shadowblade ==
    Card_new(7, 1, 4, 2, "Unit",
             <<CardEffect_new(204, "OnAttack", 4, DirectDamage(2, "ContextTarget"))>>)
Bulwark ==
    Card_new(8, 2, 2, 4, "Unit",
             <<CardEffect_new(205, "OnTurnStart", 3, Heal(2, "SourcePlayer"))>>)
Sapper ==
    Card_new(5, 1, 1, 2, "Unit",
             <<CardEffect_new(206, "OnTurnStart", 5, DirectDamage(2, "OpponentOfSource"))>>)
Wall == Card_new(10, 1, 0, 3, "Unit", <<>>)
Archer ==
    Card_new(11, 1, 1, 1, "Unit",
             <<CardEffect_new(207, "OnTurnEnd", 4, DirectDamage(2, "OpponentOfSource"))>>)

Totem ==
    Card_new(12, 1, 1, 2, "Unit",
             <<CardEffect_new(208, "OnDeath", 4, Heal(1, "SourcePlayer")),
               CardEffect_new(209, "OnDeath", 2, DirectDamage(4, "OpponentOfSource"))>>)

\* a unit on a board that has been readied
ready(card) == [card EXCEPT !.exhausted = FALSE]

\* a card id no card has
NoCard == Bulwark.id + 1

\* a game about to start: phase Mulligan (turn 0 after reset_for_mulligan)
OpeningState ==
    [GameState_new(
        <<Player_new(0, 3, 0, 1, <<Fireball, Footman>>, <<>>, <<Scholar>>),
          Player_new(1, 3, 1, 1, <<Shadowblade>>, <<>>, <<Meteor, Golem>>)>>, 0)
     EXCEPT !.turn = 0, !.max_hand_size = HandLimit, !.max_board_size = BoardLimit]

\* a game under way: units on both boards, player 0 to act
MidgameState(phase) ==
    [with_phase(GameState_new(
        <<Player_new(0, 4, 0, 9, <<Fireball>>, <<ready(Shadowblade), ready(Footman)>>,
                     <<Scholar>>),
          Player_new(1, 2, 1, 9, <<Meteor>>, <<ready(Golem), ready(Bulwark)>>, <<>>)>>,
        0), phase)
     EXCEPT !.max_hand_size = HandLimit, !.max_board_size = BoardLimit]

\* a game near its end: player 1's unit deals its damage to player 0, who has
\* health 2, at the start of player 1's turn; player 1 has a unit of attack 0
EndgameState ==
    [GameState_new(
        <<Player_new(0, 2, 0, 1, <<>>, <<ready(Footman)>>, <<Scholar>>),
          Player_new(1, 3, 0, 1, <<>>, <<ready(Sapper), ready(Wall)>>, <<Meteor>>)>>, 0)
     EXCEPT !.max_hand_size = HandLimit, !.max_board_size = BoardLimit]

\* a game that player 0's end of turn decides: the unit's damage takes player 1
\* to health 0, and the Footman's effect is still on the stack then
TurnEndState ==
    [with_phase(GameState_new(
        <<Player_new(0, 3, 0, 1, <<>>, <<ready(Archer), ready(Footman)>>, <<>>),
          Player_new(1, 2, 0, 1, <<>>, <<>>, <<>>)>>, 0), "Main")
     EXCEPT !.max_hand_size = HandLimit, !.max_board_size = BoardLimit]

\* the game under way with two units on the boards, both player 1's: the
\* Golem, and a unit that has two OnDeath effects
CascadeState ==
    [with_phase(GameState_new(
        <<Player_new(0, 4, 0, 9, <<Fireball>>, <<>>, <<Scholar>>),
          Player_new(1, 2, 1, 9, <<Meteor>>, <<ready(Golem), ready(Totem)>>, <<>>)>>,
        0), "Main")
     EXCEPT !.max_hand_size = HandLimit, !.max_board_size = BoardLimit]

InitialStates ==
    {OpeningState, MidgameState("Main"), MidgameState("Combat"), EndgameState,
     TurnEndState}

\* a player id no player has (the players have the ids 0 and 1)
NoPlayer == Len(OpeningState.players)

----------------------------------------------------------------------------
(* The calls: any rule operation, with any action, at any time *)

PlayerIds == {0, 1, NoPlayer}

\* the ids of the cards in some hand, and one that is in none
HandIds(s) ==
    UNION {RangeOf(ids(s.players[i].hand)) : i \in DOMAIN s.players} \cup {NoCard}

\* the ids of the cards on some board, and one that is on none
BoardIds(s) ==
    UNION {RangeOf(ids(s.players[i].board)) : i \in DOMAIN s.players} \cup {NoCard}

Options(S) == {None} \cup {Some(x) : x \in S}

SeqsUpTo(S, n) == UNION {[1..k -> S] : k \in 0..n}

PlayCardActions(s) ==
    [player_id : {0, 1}, card_id : HandIds(s),
     target_player : Options(PlayerIds), target_card : Options(BoardIds(s))]

AttackActions(s) ==
    [attacker_owner : {0, 1}, attacker_id : BoardIds(s),
     defender_owner : PlayerIds, defender_card : Options(BoardIds(s))]

MulliganActions(s) ==
    [player_id : PlayerIds, replacements : SeqsUpTo(HandIds(s), MaxReplacements)]

Bounded == calls < MaxCalls

\* the state after a call that returned r
Called(op, action, r) ==
    /\ state' = r.s
    /\ engine' = r.eng
    /\ last' = [op |-> op, result |-> r.result,
                action |-> IF r.result = "Ok" THEN Some(action) ELSE None]
    /\ returned' = r.ev
    /\ resolved' = r.popped
    /\ calls' = calls + 1
    /\ UNCHANGED <<decision, asked>>

Init ==
    /\ state \in InitialStates
    /\ engine = EffectEngine_default
    /\ last = [op |-> "new", result |-> "Ok", action |-> None]
    /\ returned = <<>>
    /\ resolved = <<>>
    /\ calls = 0
    /\ decision = None
    /\ asked = None

PlayCard ==
    /\ Bounded
    /\ \E action \in PlayCardActions(state) :
           Called("play_card", action, play_card(engine, state, action))

Attack ==
    /\ Bounded
    /\ \E action \in AttackActions(state) :
           Called("attack", action, attack(engine, state, action))

Mulligan ==
    /\ Bounded
    /\ \E action \in MulliganActions(state) :
           Called("mulligan", action, mulligan(engine, state, action))

StartTurn ==
    /\ Bounded
    /\ \E player_id \in PlayerIds :
           Called("start_turn", player_id, start_turn(engine, state, player_id))

EndTurn ==
    /\ Bounded
    /\ Called("end_turn", <<>>, end_turn(engine, state))

AdvancePhase ==
    /\ Bounded
    /\ Called("advance_phase", <<>>, advance_phase(engine, state))

Next == PlayCard \/ Attack \/ Mulligan \/ StartTurn \/ EndTurn \/ AdvancePhase

Spec == Init /\ [][Next]_vars

----------------------------------------------------------------------------
(* The effect engine used on its own: effects queued one at a time with     *)
(* queue_effect, then resolve_all                                           *)

\* the number of effects pushed on one engine
MaxQueued == 3

\* EffectEngine::queue_effect
queue_effect(eng, effect, context) == EffectStack_push(eng, effect, context)

\* the effects queued: priorities 3, 4 and 5, two of them equal
EffectPool ==
    {CardEffect_new(301, "OnPlay", 5, DirectDamage(3, "ContextTarget")),
     CardEffect_new(302, "OnPlay", 4, Heal(1, "SourcePlayer")),
     CardEffect_new(303, "OnPlay", 3, Heal(1, "SourcePlayer")),
     CardEffect_new(304, "OnPlay", 4, DrawCard(1, "SourcePlayer")),
     CardEffect_new(305, "OnPlay", 5, Heal(2, "SourcePlayer"))}

\* the contexts they are queued with: player 0 targets player 1, or player 1's
\* Golem (which the DirectDamage effect destroys)
ContextPool ==
    {with_target_player(EffectContext_new("OnPlay", 0, 0), 1),
     with_target_card(EffectContext_new("OnPlay", 0, 0), 1, Golem.id),
     with_target_card(EffectContext_new("OnPlay", 0, 0), 1, Totem.id)}

EngineInit ==
    /\ state \in {MidgameState("Main"), CascadeState}
    /\ engine = EffectEngine_default
    /\ last = [op |-> "new", result |-> "Ok", action |-> None]
    /\ returned = <<>>
    /\ resolved = <<>>
    /\ calls = 0
    /\ decision = None
    /\ asked = None

QueueEffect ==
    /\ engine.order < MaxQueued
    /\ \E effect \in EffectPool, context \in ContextPool :
           engine' = queue_effect(engine, effect, context)
    /\ last' = [op |-> "queue_effect", result |-> "Ok", action |-> None]
    /\ UNCHANGED <<state, returned, resolved, calls, decision, asked>>

ResolveAll ==
    /\ With(resolve_all(engine, state), LAMBDA res :
           /\ state' = res.s
           /\ engine' = res.eng
           /\ returned' = res.ev
           /\ resolved' = res.popped)
    /\ last' = [op |-> "resolve_all", result |-> "Ok", action |-> None]
    /\ UNCHANGED <<calls, decision, asked>>

EngineNext == QueueEffect \/ ResolveAll

EngineSpec == EngineInit /\ [][EngineNext]_vars

----------------------------------------------------------------------------
(* ai/minimax.rs: the agent.  An f64 score is an integer: evaluate counts *)
(* hundredths, the action scores and the weights count tenths.            *)

\* the deepest config.depth of an agent
MaxDepth == 2
\* the most deadline tests that find the deadline still ahead
MaxChecks == 5
\* the largest seed of an agent's generator
MaxSeed == 2
\* the number of host calls made with an agent
MaxMoves == 1

NEG_INFINITY == -(10 ^ 9)
INFINITY == 10 ^ 9

RECURSIVE sum(_)
sum(seq) == IF seq = <<>> THEN 0 ELSE Head(seq) + sum(Tail(seq))

Ok(value) == [ok |-> TRUE, value |-> value]
Err(error) == [ok |-> FALSE, error |-> error]
\* Result::ok
ok(result) == IF result.ok THEN Some(result.value) ELSE None

GameAction_PlayCard(action) == [type |-> "PlayCard", action |-> action]
GameAction_Mulligan(action) == [type |-> "Mulligan", action |-> action]
GameAction_Attack(action) == [type |-> "Attack", action |-> action]
GameAction_EndTurn == [type |-> "EndTurn"]

AiStrategies == {"Aggressive", "Control", "Combo", "Random", "Adaptive"}

\* AiConfig: randomness in hundredths, time_limit in milliseconds
AiConfig(depth, randomness, time_limit, strategy) ==
    [depth |-> depth, randomness |-> randomness, time_limit |-> time_limit,
     strategy |-> strategy]

from_difficulty(difficulty) ==
    CASE difficulty = "Easy" -> AiConfig(1, 120, 40, "Random")
      [] difficulty = "Normal" -> AiConfig(2, 60, 90, "Control")
      [] difficulty = "Hard" -> AiConfig(3, 20, 160, "Aggressive")
      [] difficulty = "Expert" -> AiConfig(4, 0, 260, "Adaptive")

with_strategy(config, strategy) ==
    [config EXCEPT !.strategy = strategy,
                   !.randomness = IF strategy = "Random" THEN Max(@, 100) ELSE @]

\* AiAgent: the generator is the number whose digits are its next outputs
AiAgent_with_seed(config, seed) == [config |-> config, rng |-> seed]

\* Rng::gen_range(0..n): the output and the generator after it
gen_range(rng, n) == [value |-> rng % n, rng |-> rng \div n]

\* SliceRandom::shuffle, by a rotation: any element can come first
shuffle(seq, rng) ==
    IF Len(seq) <= 1 THEN [seq |-> seq, rng |-> rng]
    ELSE With(gen_range(rng, Len(seq)), LAMBDA g :
             [seq |-> SubSeq(seq, g.value + 1, Len(seq)) \o SubSeq(seq, 1, g.value),
              rng |-> g.rng])

\* the deadline is the number of tests that still find it ahead, None when
\* there is no deadline or the search ends before it
passed(deadline) == is_some(deadline) /\ unwrap(deadline) = 0

\* the deadline after a test that found it ahead
tested(deadline) ==
    IF is_none(deadline) \/ passed(deadline) THEN deadline
    ELSE Some(unwrap(deadline) - 1)

SearchStats_new == [nodes |-> 0, depth_reached |-> 0, timed_out |-> FALSE]

\* what a search carries along: the clock, the generator and the statistics
Search(deadline, rng, stats) == [deadline |-> deadline, rng |-> rng, stats |-> stats]

board_value(cards) ==
    sum([i \in DOMAIN cards |-> Max(cards[i].attack, 0) * 16 + Max(cards[i].health, 0) * 10])

combo_potential(cards) ==
    sum([i \in DOMAIN cards |->
            Len(cards[i].effects) * 8 + (IF cards[i].card_type = "Spell" THEN 10 ELSE 0)])

\* health plus armor of the opponent of player_id, 0 when there is none
opponent_total(s, player_id) ==
    With(opponent_of(s, player_id), LAMBDA id :
        IF is_some(id) /\ has_player(s, unwrap(id))
        THEN get_player(s, unwrap(id)).health + get_player(s, unwrap(id)).armor
        ELSE 0)

\* the board value of player_id, 0 when there is no such player
own_board_value(s, player_id) ==
    IF has_player(s, player_id) THEN board_value(get_player(s, player_id).board) ELSE 0

opponent_board_value(s, player_id) ==
    With(opponent_of(s, player_id), LAMBDA id :
        IF is_some(id) /\ has_player(s, unwrap(id))
        THEN board_value(get_player(s, unwrap(id)).board)
        ELSE 0)

aggressive_score(base, action_state, player_id) ==
    (opponent_total(base, player_id) - opponent_total(action_state[2], player_id)) * 10
        + own_board_value(action_state[2], player_id)

control_score(base, action_state, player_id) ==
    (own_board_value(action_state[2], player_id) - own_board_value(base, player_id))
        - opponent_board_value(action_state[2], player_id)

combo_score(base, action_state, player_id) ==
    IF has_player(action_state[2], player_id) /\ has_player(base, player_id)
    THEN combo_potential(get_player(base, player_id).hand)
             - combo_potential(get_player(action_state[2], player_id).hand)
             + combo_potential(get_player(action_state[2], player_id).board)
    ELSE 0

\* the opponent as evaluate reads it: opponent_of(player_id).unwrap_or(player_id)
opponent_or_self(s, player_id) ==
    With(opponent_of(s, player_id), LAMBDA id :
        get_player(s, IF is_some(id) THEN unwrap(id) ELSE player_id))

\* hero_diff, hand_diff and mana_diff in units, board_diff and combo_value in tenths
evaluation_components(s, player_id) ==
    With(get_player(s, player_id), LAMBDA player :
    With(opponent_or_self(s, player_id), LAMBDA opponent :
        [hero_diff |-> (player.health + player.armor) - (opponent.health + opponent.armor),
         board_diff |-> board_value(player.board) - board_value(opponent.board),
         hand_diff |-> Len(player.hand) - Len(opponent.hand),
         mana_diff |-> player.mana - opponent.mana,
         combo_value |-> combo_potential(player.hand)]))

StrategyWeights(hero, board, hand, mana, combo) ==
    [hero |-> hero, board |-> board, hand |-> hand, mana |-> mana, combo |-> combo]

adaptive_weights(hero_diff, board_diff) ==
    StrategyWeights(IF hero_diff < 0 THEN 26 ELSE 14, IF board_diff < 0 THEN 28 ELSE 16,
                    13, 9, 11)

weights_of(strategy, c) ==
    CASE strategy = "Aggressive" -> StrategyWeights(30, 12, 6, 4, 4)
      [] strategy = "Control" -> StrategyWeights(12, 24, 16, 8, 5)
      [] strategy = "Combo" -> StrategyWeights(10, 14, 18, 9, 26)
      [] strategy = "Adaptive" -> adaptive_weights(c.hero_diff, c.board_diff)
      [] strategy = "Random" -> StrategyWeights(10, 10, 10, 5, 3)

\* the weighted sum evaluate returns for an unfinished game, in hundredths
weighted(config, s, player_id) ==
    With(evaluation_components(s, player_id), LAMBDA c :
    With(weights_of(config.strategy, c), LAMBDA weights :
        c.hero_diff * 10 * weights.hero
            + c.board_diff * weights.board
            + c.hand_diff * 10 * weights.hand
            + c.mana_diff * 10 * weights.mana
            + c.combo_value * weights.combo
            + (get_player(s, player_id).armor - opponent_or_self(s, player_id).armor) * 60
            + (IF s.current_player = player_id THEN 30 ELSE -30)))

\* an evaluate that does not look at the outcome
evaluate_unfinished(config, s, player_id) ==
    IF ~has_player(s, player_id) THEN -100000000 ELSE weighted(config, s, player_id)

\* AiAgent::evaluate, in hundredths
evaluate(config, s, player_id) ==
    IF is_some(s.outcome)
    THEN IF unwrap(s.outcome).winner = player_id THEN 100000000 ELSE -100000000
    ELSE IF ~has_player(s, player_id) THEN -100000000
    ELSE weighted(config, s, player_id)

\* AiAgent::random_noise: the output is 0, 1/2 or (nearly) 1
random_noise(config, rng) ==
    IF config.randomness <= 0 THEN [value |-> 0, rng |-> rng]
    ELSE With(gen_range(rng, 3), LAMBDA g :
             [value |-> (g.value - 1) * config.randomness, rng |-> g.rng])

\* match action { ... }: the rule operation of a new RuleEngine applied to s
rule_applied(s, action) ==
    CASE action.type = "PlayCard" -> play_card(EffectEngine_default, s, action.action)
      [] action.type = "Mulligan" -> mulligan(EffectEngine_default, s, action.action)
      [] action.type = "Attack" -> attack(EffectEngine_default, s, action.action)
      [] action.type = "EndTurn" -> end_turn(EffectEngine_default, s)

\* a simulate_state that accepts every action and applies none
simulate_state_unapplied(s, action) == Ok(s)

simulate_state(s, action) ==
    With(rule_applied(s, action), LAMBDA r :
        IF r.result = "Ok" THEN Ok(r.s) ELSE Err(r.result))

simulate_resolution(s, action) ==
    With(rule_applied(s, action), LAMBDA r :
        IF r.result = "Ok" THEN Ok(RuleResolution_new(r.s, r.ev)) ELSE Err(r.result))

\* seen.contains(action): seen holds the PlayCard and Attack actions pushed
seen_contains(actions, action) == \E i \in DOMAIN actions : actions[i][1] = action

\* for action in candidates { ... }: the legal ones not yet seen are pushed
RECURSIVE push_legal(_, _, _, _)
push_legal(s, candidates, i, actions) ==
    IF i > Len(candidates) THEN actions
    ELSE push_legal(s, candidates, i + 1,
             IF seen_contains(actions, candidates[i]) THEN actions
             ELSE With(simulate_state(s, candidates[i]), LAMBDA new_state :
                      IF new_state.ok
                      THEN Append(actions, <<candidates[i], new_state.value>>)
                      ELSE actions))

\* the first four card ids of the opponent's board
first_targets(s, opponent) ==
    IF has_player(s, opponent)
    THEN SubSeq(ids(get_player(s, opponent).board), 1,
                Min(4, Len(get_player(s, opponent).board)))
    ELSE <<>>

play_candidates(s, actor, card) ==
    <<GameAction_PlayCard([player_id |-> actor, card_id |-> card.id,
                           target_player |-> None, target_card |-> None])>>
    \o With(opponent_of(s, actor), LAMBDA opponent :
           IF is_none(opponent) THEN <<>>
           ELSE <<GameAction_PlayCard([player_id |-> actor, card_id |-> card.id,
                                       target_player |-> opponent,
                                       target_card |-> None])>>
                \o With(first_targets(s, unwrap(opponent)), LAMBDA targets :
                       [k \in DOMAIN targets |->
                           GameAction_PlayCard([player_id |-> actor, card_id |-> card.id,
                                                target_player |-> opponent,
                                                target_card |-> Some(targets[k])])]))

attack_candidates(s, actor, card, opponent) ==
    <<GameAction_Attack([attacker_owner |-> actor, attacker_id |-> card.id,
                         defender_owner |-> opponent, defender_card |-> None])>>
    \o With(first_targets(s, opponent), LAMBDA targets :
           [k \in DOMAIN targets |->
               GameAction_Attack([attacker_owner |-> actor, attacker_id |-> card.id,
                                  defender_owner |-> opponent,
                                  defender_card |-> Some(targets[k])])])

\* for card in &player.hand { ... }: g is the actions so far and the search
RECURSIVE playable_cards(_, _, _, _)
playable_cards(s, actor, i, g) ==
    IF i > Len(get_player(s, actor).hand) \/ passed(g.run.deadline) THEN g
    ELSE With(get_player(s, actor).hand[i], LAMBDA card :
             playable_cards(s, actor, i + 1,
                 [actions |-> IF card.cost > get_player(s, actor).mana THEN g.actions
                              ELSE push_legal(s, play_candidates(s, actor, card), 1,
                                              g.actions),
                  run |-> [g.run EXCEPT !.deadline = tested(@)]]))

\* for card in &player.board { ... }
RECURSIVE attacks(_, _, _, _, _)
attacks(s, actor, opponent, i, g) ==
    IF i > Len(get_player(s, actor).board) \/ passed(g.run.deadline) THEN g
    ELSE With(get_player(s, actor).board[i], LAMBDA card :
             attacks(s, actor, opponent, i + 1,
                 [actions |-> IF card.exhausted \/ card.attack <= 0 THEN g.actions
                              ELSE push_legal(s, attack_candidates(s, actor, card, opponent),
                                              1, g.actions),
                  run |-> [g.run EXCEPT !.deadline = tested(@)]]))

\* the EndTurn transition pushed last, when the rule engine accepts it
with_end_turn(s, actions) ==
    IF seen_contains(actions, GameAction_EndTurn) THEN actions
    ELSE push_legal(s, <<GameAction_EndTurn>>, 1, actions)

\* AiAgent::generate_transitions: the (action, state) pairs as actions, and the
\* search after the deadline tests and the shuffle
generate_transitions(config, s, actor, run) ==
    IF passed(run.deadline) THEN [actions |-> <<>>, run |-> run]
    ELSE
    With([run EXCEPT !.deadline = tested(@)], LAMBDA run1 :
        IF s.current_player # actor
        THEN [actions |-> push_legal(s, <<GameAction_EndTurn>>, 1, <<>>), run |-> run1]
        ELSE
        With(IF ~has_player(s, actor) THEN [actions |-> <<>>, run |-> run1]
             ELSE With(playable_cards(s, actor, 1, [actions |-> <<>>, run |-> run1]),
                       LAMBDA played :
                      IF is_none(opponent_of(s, actor)) THEN played
                      ELSE attacks(s, actor, unwrap(opponent_of(s, actor)), 1, played)),
             LAMBDA g :
        With(with_end_turn(s, g.actions), LAMBDA actions :
            IF config.randomness > 0
            THEN With(shuffle(actions, g.run.rng), LAMBDA shuffled :
                     [actions |-> shuffled.seq,
                      run |-> [g.run EXCEPT !.rng = shuffled.rng]])
            ELSE [actions |-> actions, run |-> g.run])))

\* the score prioritize_actions sorts by
priority_score(config, base_state, action_state, strategy, player_id) ==
    CASE strategy = "Aggressive" -> aggressive_score(base_state, action_state, player_id)
      [] strategy = "Control" -> control_score(base_state, action_state, player_id)
      [] strategy = "Combo" -> combo_score(base_state, action_state, player_id)
      [] strategy = "Adaptive" -> evaluate(config, action_state[2], player_id)
      [] strategy = "Random" -> 0

\* slice::sort_by on descending keys: stable, so equal keys keep their order
sort_by_descending(seq, keys) ==
    [r \in DOMAIN seq |->
        seq[CHOOSE i \in DOMAIN seq :
                Cardinality({j \in DOMAIN seq :
                                keys[j] > keys[i] \/ (keys[j] = keys[i] /\ j < i)}) = r - 1]]

prioritize_actions(config, base_state, actions, strategy, player_id) ==
    IF Len(actions) <= 1 \/ strategy = "Random" THEN actions
    ELSE sort_by_descending(actions,
             [i \in DOMAIN actions |->
                 priority_score(config, base_state, actions[i], strategy, player_id)])

\* the statistics of one more node at depth_remaining
node_counted(config, depth_remaining, run) ==
    [run EXCEPT !.stats.nodes = @ + 1,
                !.stats.depth_reached =
                    Max(@, saturating_sub(config.depth, depth_remaining))]

\* AiAgent::minimax_rec: the score and the search after it
RECURSIVE minimax_rec(_, _, _, _, _, _, _)
RECURSIVE maximizing_loop(_, _, _, _, _, _, _, _)
RECURSIVE minimizing_loop(_, _, _, _, _, _, _, _)
minimax_rec(config, s, depth_remaining, alpha, beta, root_player, run) ==
    With(node_counted(config, depth_remaining, run), LAMBDA run1 :
        IF passed(run1.deadline)
        THEN [score |-> evaluate(config, s, root_player),
              run |-> [run1 EXCEPT !.stats.timed_out = TRUE]]
        ELSE
        With([run1 EXCEPT !.deadline = tested(@)], LAMBDA run2 :
            IF depth_remaining = 0 \/ is_finished(s)
            THEN [score |-> evaluate(config, s, root_player), run |-> run2]
            ELSE
            With(generate_transitions(config, s, s.current_player, run2), LAMBDA g :
            With(prioritize_actions(config, s, g.actions, config.strategy, root_player),
                 LAMBDA transitions :
                IF transitions = <<>>
                THEN [score |-> evaluate(config, s, root_player), run |-> g.run]
                ELSE IF s.current_player = root_player
                THEN maximizing_loop(config, transitions, 1,
                         saturating_sub(depth_remaining, 1), alpha, beta, root_player,
                         [score |-> NEG_INFINITY, run |-> g.run])
                ELSE minimizing_loop(config, transitions, 1,
                         saturating_sub(depth_remaining, 1), alpha, beta, root_player,
                         [score |-> INFINITY, run |-> g.run])))))

\* the loop of a maximizing node: acc.score is value
maximizing_loop(config, transitions, i, depth, alpha, beta, root_player, acc) ==
    IF i > Len(transitions) THEN acc
    ELSE
    With(minimax_rec(config, transitions[i][2], depth, alpha, beta, root_player, acc.run),
         LAMBDA child :
    With(Max(acc.score, child.score), LAMBDA value :
        IF child.run.stats.timed_out \/ beta <= Max(alpha, value)
        THEN [score |-> value, run |-> child.run]
        ELSE maximizing_loop(config, transitions, i + 1, depth, Max(alpha, value), beta,
                             root_player, [score |-> value, run |-> child.run])))

\* a minimizing node that takes the score of its first transition
minimizing_first_only(config, transitions, i, depth, alpha, beta, root_player, acc) ==
    minimax_rec(config, transitions[1][2], depth, alpha, beta, root_player, acc.run)

\* the loop of a minimizing node
minimizing_loop(config, transitions, i, depth, alpha, beta, root_player, acc) ==
    IF i > Len(transitions) THEN acc
    ELSE
    With(minimax_rec(config, transitions[i][2], depth, alpha, beta, root_player, acc.run),
         LAMBDA child :
    With(Min(acc.score, child.score), LAMBDA value :
        IF child.run.stats.timed_out \/ Min(beta, value) <= alpha
        THEN [score |-> value, run |-> child.run]
        ELSE minimizing_loop(config, transitions, i + 1, depth, alpha, Min(beta, value),
                             root_player, [score |-> value, run |-> child.run])))

\* AiDecision, without duration_ms (a reading of the clock)
AiDecision(action, evaluation, depth_reached, nodes, timed_out, resolution, strategy) ==
    [action |-> action, evaluation |-> evaluation, depth_reached |-> depth_reached,
     nodes |-> nodes, timed_out |-> timed_out, resolution |-> resolution,
     strategy |-> strategy]

\* AiAgent::random_decision
random_decision(agent, s, player_id, deadline) ==
    With(generate_transitions(agent.config, s, s.current_player,
                              Search(deadline, agent.rng, SearchStats_new)), LAMBDA g :
        IF g.actions = <<>>
        THEN AiDecision(None, evaluate(agent.config, s, player_id), 0, 0, FALSE, None,
                        "Random")
        ELSE With(shuffle(g.actions, g.run.rng).seq[1], LAMBDA first :
                 AiDecision(Some(first[1]), evaluate(agent.config, first[2], player_id),
                            1, 1, FALSE, ok(simulate_resolution(s, first[1])), "Random")))

\* for (action, child_state) in transitions { ... } of decide_action: acc holds
\* best_action, best_score, best_cmp and the search
RECURSIVE root_loop(_, _, _, _, _, _, _, _, _)
root_loop(config, transitions, i, depth, alpha, beta, player_id, maximizing, acc) ==
    IF i > Len(transitions) THEN acc
    ELSE
    With(minimax_rec(config, transitions[i][2], depth, alpha, beta, player_id, acc.run),
         LAMBDA child :
        IF child.run.stats.timed_out THEN [acc EXCEPT !.run = child.run]
        ELSE
        With(IF maximizing THEN Max(alpha, child.score) ELSE alpha, LAMBDA alpha1 :
        With(IF maximizing THEN beta ELSE Min(beta, child.score), LAMBDA beta1 :
        With(IF config.randomness > 0 THEN random_noise(config, child.run.rng)
             ELSE [value |-> 0, rng |-> child.run.rng], LAMBDA noise :
        With(IF child.score + noise.value > acc.best_cmp
             THEN [best_action |-> Some(transitions[i][1]), best_score |-> child.score,
                   best_cmp |-> child.score + noise.value,
                   run |-> [child.run EXCEPT !.rng = noise.rng]]
             ELSE [acc EXCEPT !.run = [child.run EXCEPT !.rng = noise.rng]],
             LAMBDA acc1 :
            IF alpha1 >= beta1 THEN acc1
            ELSE root_loop(config, transitions, i + 1, depth, alpha1, beta1, player_id,
                           maximizing, acc1))))))

\* the decision decide_action builds after its loop
decided(config, s, player_id, found) ==
    AiDecision(found.best_action,
               IF is_none(found.best_action) THEN evaluate(config, s, player_id)
               ELSE found.best_score,
               found.run.stats.depth_reached, found.run.stats.nodes,
               found.run.stats.timed_out,
               IF is_none(found.best_action) THEN None
               ELSE ok(simulate_resolution(s, unwrap(found.best_action))),
               config.strategy)

\* a deadline also for a time_limit of zero
deadline_always(config, clock) == clock

\* let deadline = ...: no deadline for a time_limit of zero
deadline_of(config, clock) == IF config.time_limit = 0 THEN None ELSE clock

\* AiAgent::decide_action: clock is the number of deadline tests that find
\* the deadline ahead, None when the search ends before the deadline
decide_action(agent, s, player_id, clock) ==
    With(deadline_of(agent.config, clock), LAMBDA deadline :
        IF agent.config.strategy = "Random"
        THEN random_decision(agent, s, player_id, deadline)
        ELSE IF is_finished(s)
        THEN AiDecision(None, evaluate(agent.config, s, player_id), 0, 0, FALSE, None,
                        agent.config.strategy)
        ELSE
        With(generate_transitions(agent.config, s, s.current_player,
                                  Search(deadline, agent.rng, SearchStats_new)),
             LAMBDA g :
        With(prioritize_actions(agent.config, s, g.actions, agent.config.strategy,
                                player_id), LAMBDA transitions :
            decided(agent.config, s, player_id,
                IF transitions = <<>>
                THEN [best_action |-> None, best_score |-> NEG_INFINITY,
                      best_cmp |-> NEG_INFINITY, run |-> g.run]
                ELSE root_loop(agent.config, transitions, 1,
                               saturating_sub(agent.config.depth, 1),
                               NEG_INFINITY, INFINITY, player_id,
                               s.current_player = player_id,
                               [best_action |-> None, best_score |-> NEG_INFINITY,
                                best_cmp |-> NEG_INFINITY, run |-> g.run])))))

\* an apply_game_action that leaves the live state as it is
apply_to_nothing(s, action) == Return(EffectEngine_default, s, "Ok", <<>>, <<>>)

\* lib.rs: GameEngine::apply_game_action: the action applied to the live state
\* by a new RuleEngine
apply_game_action(s, action) == rule_applied(s, action)

\* lib.rs: the configuration apply_ai_move and think_ai build
host_config(difficulty, strategy) ==
    IF is_some(strategy) THEN with_strategy(from_difficulty(difficulty), unwrap(strategy))
    ELSE from_difficulty(difficulty)

\* lib.rs: GameEngine::apply_ai_move: the decision is taken on a clone of the
\* state, its action is applied to the state; the response holds the decision
apply_ai_move(s, player_id, difficulty, strategy, seed, clock) ==
    With(decide_action(AiAgent_with_seed(host_config(difficulty, strategy), seed), s,
                       player_id, clock), LAMBDA made :
        IF is_some(made.action)
        THEN With(apply_game_action(s, unwrap(made.action)), LAMBDA r :
                 [s |-> r.s, result |-> r.result, ev |-> r.ev, popped |-> r.popped,
                  decision |-> made])
        ELSE [s |-> s, result |-> "Ok", ev |-> <<>>, popped |-> <<>>, decision |-> made])

----------------------------------------------------------------------------
(* The agent at work: a game played by apply_ai_move, and decide_action    *)
(* asked about the state of the game.  decide_action changes nothing, so a *)
(* run ends with it.                                                       *)

Seeds == 0..MaxSeed

Clocks == {None} \cup {Some(n) : n \in 0..MaxChecks}

AiConfigs ==
    {AiConfig(depth, randomness, time_limit, strategy) :
        depth \in 1..MaxDepth, randomness \in {0, 60}, time_limit \in {0, 90},
        strategy \in AiStrategies}

\* the difficulties whose search is no deeper than MaxDepth
Difficulties ==
    {d \in {"Easy", "Normal", "Hard", "Expert"} : from_difficulty(d).depth <= MaxDepth}

\* a generator is read when randomness > 0 or the strategy is Random
reads_rng(config) == config.randomness > 0 \/ config.strategy = "Random"

\* a game in its second turn: player 1 to act
SecondTurnState == end_turn(EffectEngine_default, EndgameState).s

\* a game that is over: player 0 has won it with a Fireball on player 1
FinishedState ==
    play_card(EffectEngine_default, MidgameState("Main"),
              [player_id |-> 0, card_id |-> Fireball.id, target_player |-> Some(1),
               target_card |-> None]).s

AiStates == InitialStates \cup {SecondTurnState, FinishedState}

AiInit ==
    /\ state \in AiStates
    /\ engine = EffectEngine_default
    /\ last = [op |-> "new", result |-> "Ok", action |-> None]
    /\ returned = <<>>
    /\ resolved = <<>>
    /\ calls = 0
    /\ decision = None
    /\ asked = None

Thinking == calls < MaxMoves /\ is_none(asked)

DecideAction ==
    /\ Thinking
    /\ \E config \in AiConfigs, seed \in Seeds, player_id \in {0, 1}, clock \in Clocks :
           /\ reads_rng(config) \/ seed = 0
           /\ config.time_limit > 0 \/ clock = None
           /\ With(decide_action(AiAgent_with_seed(config, seed), state, player_id, clock),
                   LAMBDA made :
                  /\ decision' = Some(made)
                  /\ last' = [op |-> "decide_action", result |-> "Ok",
                              action |-> made.action])
           /\ asked' = Some([agent |-> AiAgent_with_seed(config, seed),
                             player_id |-> player_id, clock |-> clock])
    /\ UNCHANGED <<state, engine, returned, resolved, calls>>

ApplyAiMove ==
    /\ Thinking
    /\ \E difficulty \in Difficulties, strategy \in Options(AiStrategies),
           seed \in Seeds, player_id \in {0, 1}, clock \in Clocks :
           With(apply_ai_move(state, player_id, difficulty, strategy, seed, clock),
                LAMBDA r :
               /\ state' = r.s
               /\ last' = [op |-> "apply_ai_move", result |-> r.result,
                           action |-> r.decision.action]
               /\ returned' = r.ev
               /\ resolved' = r.popped)
    /\ calls' = calls + 1
    /\ UNCHANGED <<engine, decision, asked>>

AiNext == DecideAction \/ ApplyAiMove

AiSpec == AiInit /\ [][AiNext]_vars

----------------------------------------------------------------------------
(* Properties of the rule operations *)

\* the player record of player_id in state s
PlayerOf(s, player_id) == s.players[unwrap(player_index(s, player_id))]

\* the ids of the cards in some zone (hand, board, deck) of some player
ZoneIds(s) ==
    UNION {RangeOf(ids(s.players[i].hand \o s.players[i].board \o s.players[i].deck)) :
               i \in DOMAIN s.players}

\* the events of the log of type type
Logged(s, type) == {i \in DOMAIN s.event_log : s.event_log[i].type = type}

\* C1: once outcome is set it is never cleared or changed: every later call of
\* a rule operation, whatever its arguments, returns GameFinished and leaves
\* the GameState as it was.
C1_FinishedIsFinal ==
    [][is_some(state.outcome) =>
           /\ state' = state
           /\ last'.result = "GameFinished"]_vars

\* a call was made on a game that already had an outcome
C1_CalledWhenFinished ==
    /\ is_some(state.outcome)
    /\ last.result = "GameFinished"
    /\ \E i \in Logged(state, "GameWon") :
           /\ state.event_log[i].winner = unwrap(state.outcome).winner
           /\ state.event_log[i].reason = unwrap(state.outcome).reason

\* C2: a play_card that returns an error leaves the GameState as it was before
\* the call (the card still in the hand, the mana unchanged).
C2_PlayCardErrorKeepsState ==
    [][(last'.op = "play_card" /\ last'.result # "Ok") => state' = state]_vars

\* a play_card of a card with a ContextTarget effect, without a target, failed
\* with InvalidTarget, and the card is in no hand after it
C2_CardLostOnInvalidTarget ==
    /\ last.op = "play_card"
    /\ last.result = "InvalidTarget"
    /\ calls = 1
    /\ state.phase = "Main"
    /\ Fireball.id \notin ZoneIds(state)
    /\ state.event_log = <<>>

\* C3: an attack that returns an error leaves the GameState as it was before the
\* call: no AttackDeclared event is logged, the attacker's exhausted flag is
\* unchanged.
C3_AttackErrorKeepsState ==
    [][(last'.op = "attack" /\ last'.result # "Ok") => state' = state]_vars

\* an attack on a card that is not on the defender's board failed with
\* InvalidTarget after it logged AttackDeclared, exhausted the attacker and
\* queued the attacker's OnAttack effects
C3_AttackDeclaredOnInvalidTarget ==
    /\ last.op = "attack"
    /\ last.result = "InvalidTarget"
    /\ calls = 1
    /\ Logged(state, "AttackDeclared") # {}
    /\ \E k \in DOMAIN state.players[1].board :
           /\ state.players[1].board[k].id = Shadowblade.id
           /\ state.players[1].board[k].exhausted
    /\ engine.heap # {}

\* C4: a mulligan that returns an error leaves the GameState as it was before
\* the call: no listed card has moved from the hand to the deck.
C4_MulliganErrorKeepsState ==
    [][(last'.op = "mulligan" /\ last'.result # "Ok") => state' = state]_vars

\* a mulligan failed with CardNotFound after it moved a card of the list from
\* the hand to the deck
C4_CardMovedOnCardNotFound ==
    /\ last.op = "mulligan"
    /\ last.result = "CardNotFound"
    /\ calls = 1
    /\ Len(state.players[1].hand) = 1
    /\ Len(state.players[1].deck) = 2
    /\ state.mulligan_completed = <<>>

\* C5: no card id occurs twice across the hands, boards and decks of the
\* players, and integrity_check does not report DuplicateCardId.
C5_CardIdsUnique ==
    /\ ~has_duplicate(seen_ids(state, Len(state.players)))
    /\ integrity_check(state) # Some("DuplicateCardId")

\* a mulligan has moved two cards from a hand to the deck and drawn for them
C5_CardsReplaced ==
    /\ \E i \in Logged(state, "MulliganApplied") :
           Len(state.event_log[i].replaced) = 2
    /\ Logged(state, "CardDrawn") # {}

\* C6: the mana of every player is in 0..10.
C6_ManaInRange ==
    \A i \in DOMAIN state.players : state.players[i].mana \in 0..10

\* a turn start readied a player whose mana is now at the cap
C6_ReadiedAtCap ==
    /\ last.op \in {"start_turn", "end_turn"}
    /\ last.result = "Ok"
    /\ is_none(state.outcome)
    /\ PlayerOf(state, state.current_player).mana = 10

\* draw_card for a player whose hand is full and whose deck is not empty: the
\* top card of the deck leaves the deck for no zone, the event is CardBurned
BurnsWhenFull(s, i) ==
    LET player == s.players[i]
        card == player.deck[Len(player.deck)]
        d == draw_card(s, player.id)
    IN  (Len(player.hand) >= s.max_hand_size /\ player.deck # <<>>) =>
            /\ d.ev = Some(CardBurned(player.id, card))
            /\ d.s.players[i].hand = player.hand
            /\ d.s.players[i].deck = SubSeq(player.deck, 1, Len(player.deck) - 1)
            /\ ZoneIds(d.s) = ZoneIds(s) \ {card.id}

\* C7: every hand has at most max_hand_size cards; a draw into a full hand
\* takes the card from the deck, puts it in no zone and emits CardBurned.
C7_HandBounded ==
    /\ \A i \in DOMAIN state.players :
           Len(state.players[i].hand) <= state.max_hand_size
    /\ \A i \in DOMAIN state.players : BurnsWhenFull(state, i)
    /\ \A i \in Logged(state, "CardBurned") :
           state.event_log[i].card.id \notin ZoneIds(state)

\* a card was drawn into a full hand and burned
C7_CardBurned ==
    \E i \in Logged(state, "CardBurned") :
        Len(PlayerOf(state, state.event_log[i].player_id).hand) = state.max_hand_size

\* the card with id card_id in the hand of player_id is a Unit
UnitInHand(s, player_id, card_id) ==
    \E k \in DOMAIN PlayerOf(s, player_id).hand :
        /\ PlayerOf(s, player_id).hand[k].id = card_id
        /\ PlayerOf(s, player_id).hand[k].card_type = "Unit"

C9_EndTurnReadiesOnce ==
    [][(/\ last'.op = "end_turn"
        /\ last'.result = "Ok"
        /\ is_none(state'.outcome)
        /\ state'.current_player # state.current_player) =>
           LET before == PlayerOf(state, state'.current_player)
               after == PlayerOf(state', state'.current_player)
           IN  /\ after.mana = Min(before.mana + 1, 10)
               /\ Len(after.deck) =
                      Len(before.deck) - (IF before.deck # <<>> THEN 1 ELSE 0)]_vars

\* an end_turn gave the new current player two mana and took two cards from
\* their deck
C9_ReadiedTwice ==
    /\ last.op = "end_turn"
    /\ last.result = "Ok"
    /\ calls = 1
    /\ is_none(state.outcome)
    /\ state.current_player = 1
    /\ PlayerOf(state, 1).mana = PlayerOf(OpeningState, 1).mana + 2
    /\ Len(PlayerOf(state, 1).deck) = Len(PlayerOf(OpeningState, 1).deck) - 2

\* the OnDeath effect effect of the card of a CardDestroyed event was popped by
\* resolve_all during the last call
DeathResolved(event, effect) ==
    \E j \in DOMAIN resolved :
        /\ resolved[j].entry_id = effect.id
        /\ resolved[j].trigger = "OnDeath"
        /\ resolved[j].source_card = Some(event.card.id)

\* C10: every unit a rule operation destroyed, in combat or by a DirectDamage
\* effect, had its OnDeath effects queued and resolved before the operation
\* returned.
C10_DeathsResolved ==
    \A i \in DOMAIN returned :
        returned[i].type = "CardDestroyed" =>
            \A k \in DOMAIN returned[i].card.effects :
                returned[i].card.effects[k].trigger = "OnDeath" =>
                    DeathResolved(returned[i], returned[i].card.effects[k])

\* an attack destroyed a unit that has an OnDeath effect and returned without
\* resolving any effect for it
C10_CombatDeathUnresolved ==
    /\ last.op = "attack"
    /\ last.result = "Ok"
    /\ \E i \in DOMAIN returned :
           /\ returned[i].type = "CardDestroyed"
           /\ returned[i].card.id = Golem.id
    /\ \A j \in DOMAIN resolved : resolved[j].trigger # "OnDeath"
    /\ engine.heap = {}

\* a DirectDamage effect destroyed a unit and its OnDeath effect was resolved
DirectDamageDeathResolved ==
    /\ last.op = "play_card"
    /\ \E i \in DOMAIN returned :
           /\ returned[i].type = "CardDestroyed"
           /\ returned[i].card.id = Golem.id
    /\ \E j \in DOMAIN resolved : resolved[j].trigger = "OnDeath" /\ resolved[j].applied

\* the index in resolved of the item pushed with order number o
PoppedAt(o) == CHOOSE j \in DOMAIN resolved : resolved[j].order = o

\* the item popped at i comes before the item popped at j in the stack's order:
\* higher priority, or equal priority and pushed earlier
ResolvesFirst(i, j) ==
    \/ resolved[i].priority > resolved[j].priority
    \/ /\ resolved[i].priority = resolved[j].priority
       /\ resolved[i].order < resolved[j].order

\* C11: resolve_all pops by priority: every item still on the stack when an
\* item is popped is popped later, and has a lower priority, or the same
\* priority and a later push.
C11_ResolvedByPriority ==
    \A i \in DOMAIN resolved :
        \A o \in resolved[i].pending :
            \E j \in DOMAIN resolved :
                /\ j > i
                /\ resolved[j].order = o
                /\ ResolvesFirst(i, j)

\* three effects were resolved, not in the order of their pushes: a later push
\* of higher priority first, and two of equal priority in the order pushed
C11_ReorderedByPriority ==
    /\ Len(resolved) >= 3
    /\ \E i, j \in DOMAIN resolved :
           /\ i < j
           /\ resolved[j].order \in resolved[i].pending
           /\ resolved[i].priority > resolved[j].priority
           /\ resolved[i].order > resolved[j].order
    /\ \E i, j \in DOMAIN resolved :
           /\ i < j
           /\ resolved[j].order \in resolved[i].pending
           /\ resolved[i].priority = resolved[j].priority

\* the item popped at c was queued by resolve_all for a destroyed card
Cascaded(c) == resolved[c].trigger = "OnDeath"

\* the index of the item whose resolution queued the item popped at c: the
\* last one popped before c that did not leave c's item on the heap
QueuedBy(c) ==
    CHOOSE k \in 1..(c - 1) :
        /\ resolved[c].order \notin resolved[k].pending
        /\ \A i \in (k + 1)..(c - 1) : resolved[c].order \in resolved[i].pending

\* C12: an OnDeath effect queued during resolve_all is resolved before the
\* effects then pending of lower priority and after those of equal or higher
\* priority; the pending effects are all resolved, in the order they had.
C12_CascadeByPriority ==
    \A c \in DOMAIN resolved :
        Cascaded(c) =>
            LET pending == resolved[QueuedBy(c)].pending
            IN  /\ \A o \in pending :
                       /\ \E j \in DOMAIN resolved : resolved[j].order = o
                       /\ resolved[PoppedAt(o)].priority < resolved[c].priority
                              => c < PoppedAt(o)
                       /\ resolved[PoppedAt(o)].priority >= resolved[c].priority
                              => PoppedAt(o) < c
                /\ \A o1, o2 \in pending :
                       ResolvesFirst(PoppedAt(o1), PoppedAt(o2))
                           => PoppedAt(o1) < PoppedAt(o2)

\* an OnDeath effect was queued while an effect of its priority and one of
\* lower priority were pending, and was resolved between the two
C12_CascadeBetweenPending ==
    \E c, i, j \in DOMAIN resolved :
        /\ Cascaded(c)
        /\ resolved[c].applied
        /\ i < c /\ c < j
        /\ {resolved[i].order, resolved[j].order} \subseteq resolved[QueuedBy(c)].pending
        /\ resolved[i].priority = resolved[c].priority
        /\ resolved[j].priority < resolved[c].priority

\* C13: the engine's effect stack is empty whenever a rule operation has
\* returned, with Ok or with an error, so that no call resolves an effect that
\* an earlier call queued.
C13_StackEmptyOnReturn == engine.heap = {}

\* a call other than attack resolved an OnAttack effect: the item a failed
\* attack had left on the stack
C13_ResolvedByLaterCall ==
    /\ last.op # "attack"
    /\ engine.heap = {}
    /\ \E i \in DOMAIN resolved :
           /\ resolved[i].trigger = "OnAttack"
           /\ resolved[i].applied

\* the cards of s on the board of player player_id with id card_id
OnBoard(s, player_id, card_id) ==
    {PlayerOf(s, player_id).board[i] :
        i \in {j \in DOMAIN PlayerOf(s, player_id).board :
                  PlayerOf(s, player_id).board[j].id = card_id}}

\* attack reaches its test of the attacker's exhausted flag: the game is not
\* finished, it is the attacker's turn and phase Combat, and the defender is
\* another player of the game
AttackerExamined(s, action) ==
    /\ is_none(s.outcome)
    /\ s.current_player = action.attacker_owner
    /\ s.phase = "Combat"
    /\ action.defender_owner \in {p.id : p \in RangeOf(s.players)}
    /\ action.defender_owner # action.attacker_owner

\* C14: after a successful attack the attacker, if still on the board, is
\* exhausted; no attack by an exhausted unit succeeds, and it fails with
\* UnitExhausted once attack examines the attacker; an exhausted unit becomes
\* ready only in a call that readies its owner (start_turn, end_turn), so a
\* unit attacks at most once between two readies.
C14_AttackExhausts ==
    /\ [](\A action \in AttackActions(state) :
              (\E c \in OnBoard(state, action.attacker_owner, action.attacker_id) :
                   c.exhausted /\ c.card_type = "Unit") =>
                  /\ attack(engine, state, action).result # "Ok"
                  /\ AttackerExamined(state, action) =>
                         attack(engine, state, action).result = "UnitExhausted")
    /\ [][/\ (last'.op = "attack" /\ last'.result = "Ok") =>
              /\ \A c \in OnBoard(state', last'.action[1].attacker_owner,
                                  last'.action[1].attacker_id) : c.exhausted
              /\ \A c \in OnBoard(state, last'.action[1].attacker_owner,
                                  last'.action[1].attacker_id) : ~c.exhausted
       /\ \A p \in PlayerIds \ {NoPlayer}, id \in BoardIds(state) :
              (/\ \E c \in OnBoard(state, p, id) : c.exhausted
               /\ \E c \in OnBoard(state', p, id) : ~c.exhausted) =>
                  /\ last'.op \in {"start_turn", "end_turn"}
                  /\ last'.result = "Ok"
                  /\ state'.current_player = p]_vars

\* a unit that attacked attacks again in the same turn and gets UnitExhausted
C14_SecondAttackRefused ==
    /\ last.op = "attack"
    /\ last.result = "UnitExhausted"
    /\ \E e \in RangeOf(state.event_log) :
           /\ e.type = "AttackDeclared"
           /\ e.attacker_owner = state.current_player
           /\ \E c \in OnBoard(state, e.attacker_owner, e.attacker_id) : c.exhausted

\* how often player_id occurs in the mulligan_completed list of s
TimesCompleted(s, player_id) ==
    Cardinality({i \in DOMAIN s.mulligan_completed :
                    s.mulligan_completed[i] = player_id})

\* C15: a successful mulligan puts the acting player, who was not listed, into
\* mulligan_completed exactly once; no mulligan by a listed player succeeds,
\* and it fails with MulliganAlreadyCompleted while the game is unfinished and
\* in phase Mulligan; no id is ever listed twice.
C15_MulliganOnce ==
    /\ [](/\ \A p \in PlayerIds : TimesCompleted(state, p) <= 1
          /\ \A action \in MulliganActions(state) :
                 TimesCompleted(state, action.player_id) > 0 =>
                     /\ mulligan(engine, state, action).result # "Ok"
                     /\ (is_none(state.outcome) /\ state.phase = "Mulligan") =>
                            mulligan(engine, state, action).result
                                = "MulliganAlreadyCompleted")
    /\ [][(last'.op = "mulligan" /\ last'.result = "Ok") =>
              /\ TimesCompleted(state, last'.action[1].player_id) = 0
              /\ TimesCompleted(state', last'.action[1].player_id) = 1]_vars

\* a player who completed the mulligan asked for another and was refused
C15_SecondMulliganRefused ==
    /\ last.op = "mulligan"
    /\ last.result = "MulliganAlreadyCompleted"
    /\ \E p \in PlayerIds : TimesCompleted(state, p) = 1

\* C16: the RuleResolution built from the state and the events of a successful
\* rule operation has a victory exactly when the state has an outcome, the
\* victory is that outcome, and its events then hold a GameWon event of the
\* victory's winner and reason, and no GameWon event of another.
C16_ResolutionVictory ==
    (last.op # "new" /\ last.result = "Ok") =>
        LET resolution == RuleResolution_new(state, returned)
        IN  /\ Len(resolution.victory) = Len(state.outcome)
            /\ \A i \in DOMAIN resolution.victory :
                   /\ resolution.victory[i] = state.outcome[i]
                   /\ \E e \in RangeOf(resolution.events) :
                          /\ e.type = "GameWon"
                          /\ e.winner = resolution.victory[i].winner
                          /\ e.reason = resolution.victory[i].reason
            /\ \A e \in RangeOf(resolution.events) :
                   e.type = "GameWon" =>
                       /\ resolution.victory # <<>>
                       /\ e.winner = resolution.victory[1].winner
                       /\ e.reason = resolution.victory[1].reason

\* an operation returned Ok from a state it finished, without a GameWon event
\* among its events: the resolution's constructor adds the event
C16_GameWonAdded ==
    /\ last.op # "new"
    /\ last.result = "Ok"
    /\ is_some(state.outcome)
    /\ \A e \in RangeOf(returned) : e.type # "GameWon"

\* an operation returned Ok with the GameWon event among its events
C16_GameWonReturned ==
    /\ last.op # "new"
    /\ last.result = "Ok"
    /\ is_some(state.outcome)
    /\ \E e \in RangeOf(returned) : e.type = "GameWon"

\* the victories declare_victory is called with: any player as winner, for
\* any reason
Victories ==
    {VictoryState(winner, reason) :
        winner \in {0, 1},
        reason \in {HealthDepleted(0), HealthDepleted(1), DeckOut(0), DeckOut(1),
                    Special("Simultaneous defeat")}}

\* C17: declare_victory on a state that has an outcome changes nothing,
\* whatever winner and reason it is called with; event_log holds at most one
\* GameWon event, and that event is the outcome's.
C17_VictoryDeclaredOnce ==
    /\ Cardinality(Logged(state, "GameWon")) <= 1
    /\ \A i \in Logged(state, "GameWon") :
           state.outcome = Some(VictoryState(state.event_log[i].winner,
                                             state.event_log[i].reason))
    /\ is_some(state.outcome) =>
           \A v \in Victories : declare_victory(state, v.winner, v.reason) = state

\* a game was won by damage: it has an outcome, logged once, on which a
\* further declare_victory has nothing to change
C17_OutcomeLogged ==
    /\ is_some(state.outcome)
    /\ Cardinality(Logged(state, "GameWon")) = 1
    /\ \E p \in RangeOf(state.players) : p.health <= 0

\* the amounts of damage dealt to a player: up to more than any health and
\* armor of the game
Amounts == 1..(OpeningState.players[1].health + MidgameState("Main").players[1].health)

\* s is s0 with player p defeated by damage: the other player has won by
\* HealthDepleted of p, and GameWon is the event logged last
DefeatDeclared(s0, s, p) ==
    /\ s.outcome = Some(VictoryState(winner_over(s0, p), HealthDepleted(p)))
    /\ s.event_log # <<>>
    /\ s.event_log[Len(s.event_log)] = GameWon(winner_over(s0, p), HealthDepleted(p))

\* C18: a player with health 0 or below implies an outcome; damage that brings
\* a player of an unfinished game to 0 or below makes the other player the
\* winner, for HealthDepleted of the damaged player, and logs GameWon; this
\* holds of damage_player on every reachable state and of every call.
C18_DefeatDeclared ==
    /\ [](/\ (\E p \in RangeOf(state.players) : p.health <= 0) => is_some(state.outcome)
          /\ is_none(state.outcome) =>
                 \A p \in {0, 1}, amount \in Amounts :
                     LET dmg == damage_player(state, 1 - p, None, p, amount).s
                     IN  IF PlayerOf(dmg, p).health <= 0
                         THEN /\ DefeatDeclared(state, dmg, p)
                              /\ dmg.event_log
                                     = Append(state.event_log,
                                              dmg.event_log[Len(dmg.event_log)])
                         ELSE dmg.outcome = None /\ dmg.event_log = state.event_log)
    /\ [][(/\ is_none(state.outcome)
           /\ \E p \in {0, 1} : PlayerOf(state', p).health <= 0) =>
              \E p \in {0, 1} :
                  /\ PlayerOf(state, p).health > 0
                  /\ PlayerOf(state', p).health <= 0
                  /\ state'.outcome
                         = Some(VictoryState(winner_over(state, p), HealthDepleted(p)))
                  /\ \E i \in Logged(state', "GameWon") :
                         /\ i > Len(state.event_log)
                         /\ state'.event_log[i]
                                = GameWon(winner_over(state, p), HealthDepleted(p))]_vars

\* a call's damage brought a player from health above 0 to 0 or below, and
\* the game has its outcome
C18_PlayerDefeated ==
    /\ last.result = "Ok"
    /\ \E p \in {0, 1} :
           /\ PlayerOf(state, p).health <= 0
           /\ state.outcome = Some(VictoryState(1 - p, HealthDepleted(p)))
           /\ \E i \in Logged(state, "DamageResolved") :
                  /\ state.event_log[i].target_player = p
                  /\ state.event_log[i].target_card = None

\* the id and the health of every card of s, zone by zone
CardHealths(s) ==
    [i \in DOMAIN s.players |->
        [zone \in {"hand", "board", "deck"} |->
            [j \in DOMAIN s.players[i][zone] |->
                <<s.players[i][zone][j].id, s.players[i][zone][j].health>>]]]

\* the attacking card of action on the board of s
Attacker(s, action) ==
    CHOOSE c \in OnBoard(s, action.attacker_owner, action.attacker_id) : TRUE

\* no OnAttack effect takes part in an attack by card: the card has none, and
\* the stack holds none
NoOnAttack(card) ==
    /\ \A i \in DOMAIN card.effects : card.effects[i].trigger # "OnAttack"
    /\ engine.heap = {}

\* this step is a successful attack on the face, no OnAttack effect involved
FaceAttack ==
    /\ last'.op = "attack"
    /\ last'.result = "Ok"
    /\ last'.action[1].defender_card = None
    /\ NoOnAttack(Attacker(state, last'.action[1]))

\* C19: a successful face attack by a unit of attack a with no OnAttack effect,
\* on a player with armor r, lowers the armor by min(a, r) and the health by
\* max(a - r, 0), exhausts the attacker and changes no card's health; with
\* r = 0 the health decreases.
C19_FaceAttackDamage ==
    [][FaceAttack =>
           LET a == Attacker(state, last'.action[1]).attack
               before == PlayerOf(state, last'.action[1].defender_owner)
               after == PlayerOf(state', last'.action[1].defender_owner)
               r == before.armor
           IN  /\ after.armor = r - (IF a < r THEN a ELSE r)
               /\ after.health = before.health - (IF a - r > 0 THEN a - r ELSE 0)
               /\ r = 0 => after.health < before.health
               /\ Attacker(state', last'.action[1]).exhausted
               /\ ~Attacker(state, last'.action[1]).exhausted
               /\ CardHealths(state') = CardHealths(state)]_vars

\* a unit without OnAttack effect attacked a player's face: the damage event
\* is logged last but for GameWon, the armor absorbed what it could, the
\* attacker is exhausted
C19_FaceAttacked ==
    /\ last.op = "attack"
    /\ last.result = "Ok"
    /\ last.action[1].defender_card = None
    /\ \A i \in DOMAIN Attacker(state, last.action[1]).effects :
           Attacker(state, last.action[1]).effects[i].trigger # "OnAttack"
    /\ Attacker(state, last.action[1]).exhausted
    /\ \E e \in RangeOf(returned) :
           /\ e.type = "DamageResolved"
           /\ e.target_player = last.action[1].defender_owner
           /\ e.target_card = None
           /\ e.amount = Attacker(state, last.action[1]).attack
    /\ PlayerOf(state, last.action[1].defender_owner).armor = 0

\* the defending card of action on the board of s
Defender(s, action) ==
    CHOOSE c \in OnBoard(s, action.defender_owner, unwrap(action.defender_card)) : TRUE

\* this step is a successful attack on a card, no OnAttack effect involved
CardAttack ==
    /\ last'.op = "attack"
    /\ last'.result = "Ok"
    /\ is_some(last'.action[1].defender_card)
    /\ NoOnAttack(Attacker(state, last'.action[1]))

\* after is what damage of amount leaves on the board of the card before: the
\* card with its health lowered by amount, or nothing when that is 0 or below
Damaged(before, after, amount) ==
    after = IF before.health - amount <= 0 THEN {}
            ELSE {[before EXCEPT !.health = @ - amount]}

\* C20: in a successful attack on a card, no OnAttack effect involved, the
\* defender loses the attacker's attack in health; the attacker loses the
\* defender's attack of before the attack exactly when the defender is a Unit
\* with attack above 0, also when the attack destroys the defender; each of
\* the two is removed from its board iff its health is then 0 or below.
C20_CombatDamage ==
    [][CardAttack =>
           LET action == last'.action[1]
               attacker == Attacker(state, action)
               defender == Defender(state, action)
           IN  /\ Damaged(defender,
                          OnBoard(state', action.defender_owner, defender.id),
                          attacker.attack)
               /\ IF defender.card_type = "Unit" /\ defender.attack > 0
                  THEN Damaged([attacker EXCEPT !.exhausted = TRUE],
                               OnBoard(state', action.attacker_owner, attacker.id),
                               defender.attack)
                  ELSE OnBoard(state', action.attacker_owner, attacker.id)
                           = {[attacker EXCEPT !.exhausted = TRUE]}]_vars

\* an attack without OnAttack effect destroyed the defender, and the destroyed
\* defender's retaliation damaged the attacker
C20_DestroyedDefenderRetaliated ==
    /\ last.op = "attack"
    /\ last.result = "Ok"
    /\ is_some(last.action[1].defender_card)
    /\ \E e \in RangeOf(returned) :
           /\ e.type = "CardDestroyed"
           /\ e.card.id = unwrap(last.action[1].defender_card)
    /\ \E e \in RangeOf(returned) :
           /\ e.type = "DamageResolved"
           /\ e.target_card = Some(last.action[1].attacker_id)
           /\ e.source_card = last.action[1].defender_card
    /\ \A e \in RangeOf(returned) :
           e.type = "DamageResolved" => is_some(e.target_card)
    /\ resolved = <<>>

\* a unit of attack 0 was attacked and did not retaliate
C20_NoRetaliation ==
    /\ last.op = "attack"
    /\ last.result = "Ok"
    /\ last.action[1].defender_card = Some(Wall.id)
    /\ \A e \in RangeOf(returned) :
           e.type = "DamageResolved" => e.target_card = Some(Wall.id)

\* e is the event that the effect of kind, of a card of player owner with id
\* card_id, returns when it is applied to a player
EventOf(e, kind, owner, card_id) ==
    CASE kind.type = "Heal" ->
            e.type = "CardHealed" /\ e.card_id = None /\ e.amount = kind.amount
      [] kind.type = "DirectDamage" ->
            /\ e.type = "DamageResolved"
            /\ e.source_player = owner
            /\ e.source_card = Some(card_id)
            /\ e.amount = kind.amount
      [] OTHER -> TRUE

\* the OnTurnStart effects of the units on the board of player owner in s were
\* popped by resolve_all in the last call, and the events of those applied
\* are among the events the call returned
TurnStartResolved(s, owner, popped, events) ==
    \A c \in RangeOf(PlayerOf(s, owner).board) :
        \A k \in DOMAIN c.effects :
            c.effects[k].trigger = "OnTurnStart" =>
                \E i \in DOMAIN popped :
                    /\ popped[i].entry_id = c.effects[k].id
                    /\ popped[i].trigger = "OnTurnStart"
                    /\ popped[i].source_card = Some(c.id)
                    /\ popped[i].applied =>
                           \E j \in DOMAIN events :
                               EventOf(events[j], c.effects[k].kind, owner, c.id)

\* C21: after a successful end_turn that leaves the game unfinished the
\* current player is the opponent of the player whose turn ended, turn is one
\* higher, the phase is Main, the new current player's units are ready, and
\* their OnTurnStart effects were resolved in the call, with their events
\* returned.
C21_EndTurnStartsNextTurn ==
    [][(last'.op = "end_turn" /\ last'.result = "Ok" /\ is_none(state'.outcome)) =>
           /\ state'.current_player # state.current_player
           /\ Some(state'.current_player) = opponent_of(state, state.current_player)
           /\ state'.turn = state.turn + 1
           /\ state'.phase = "Main"
           /\ \A c \in RangeOf(PlayerOf(state', state'.current_player).board) :
                  ~c.exhausted
           /\ TurnStartResolved(state', state'.current_player, resolved', returned')
           /\ \E j \in DOMAIN returned' :
                  returned'[j] = TurnEnded(state.current_player)]_vars

\* an end_turn passed the turn to a player whose unit's OnTurnStart effect was
\* applied, and the game goes on
C21_TurnStartEffectApplied ==
    /\ last.op = "end_turn"
    /\ last.result = "Ok"
    /\ is_none(state.outcome)
    /\ \E c \in RangeOf(PlayerOf(state, state.current_player).board) :
           \E i \in DOMAIN resolved :
               /\ resolved[i].trigger = "OnTurnStart"
               /\ resolved[i].source_card = Some(c.id)
               /\ resolved[i].applied

\* seq in reverse order
Reversed(seq) == [i \in DOMAIN seq |-> seq[Len(seq) + 1 - i]]

\* the events of events with the type type
OfType(events, type) == SelectSeq(events, LAMBDA e : e.type = type)

\* after is the player before once the k cards of the hand with an id in
\* replaced went to the front of the deck and k cards were drawn from its end:
\* the hand is the cards kept, in their order, followed by the cards drawn,
\* first drawn first; the deck with the drawn cards put back on its end is
\* the replaced cards followed by the deck of before
Replaced(before, after, replaced, k) ==
    /\ Len(after.hand) = Len(before.hand)
    /\ Len(after.deck) = Len(before.deck)
    /\ SubSeq(after.hand, 1, Len(before.hand) - k)
           = SelectSeq(before.hand, LAMBDA c : c.id \notin replaced)
    /\ \E moved \in SeqsUpTo({c \in RangeOf(before.hand) : c.id \in replaced}, k) :
           /\ Len(moved) = k
           /\ Cardinality(RangeOf(moved)) = k
           /\ moved \o before.deck
                  = after.deck \o Reversed(SubSeq(after.hand, Len(before.hand) - k + 1,
                                                  Len(before.hand)))

\* C22: a successful mulligan with k distinct replacement ids moves those k
\* cards from the hand to the front of the deck and draws k cards from the
\* deck's end; hand size and deck size are as before, outcome stays unset, no
\* card is burned, and MulliganApplied lists the k ids, each once.
C22_MulliganReplaces ==
    [][(last'.op = "mulligan" /\ last'.result = "Ok") =>
           LET action == last'.action[1]
               replaced == RangeOf(action.replacements)
               k == Cardinality(replaced)
               applied == OfType(returned', "MulliganApplied")
           IN  /\ Replaced(PlayerOf(state, action.player_id),
                           PlayerOf(state', action.player_id), replaced, k)
               /\ state'.outcome = None
               /\ Len(OfType(returned', "CardDrawn")) = k
               /\ Len(returned') = k + 1
               /\ Len(applied) = 1
               /\ applied[1].player_id = action.player_id
               /\ Len(applied[1].replaced) = k
               /\ RangeOf(applied[1].replaced) = replaced
               /\ \A p \in {0, 1} \ {action.player_id} :
                      PlayerOf(state', p) = PlayerOf(state, p)]_vars

\* a mulligan replaced two cards of a player whose deck held one card: the
\* second draw brought a replaced card back
C22_ReplacedCardDrawnAgain ==
    /\ last.op = "mulligan"
    /\ last.result = "Ok"
    /\ Cardinality(RangeOf(last.action[1].replacements)) = 2
    /\ \E c \in RangeOf(PlayerOf(state, last.action[1].player_id).hand) :
           c.id \in RangeOf(last.action[1].replacements)
    /\ Len(OfType(returned, "CardDrawn")) = 2

\* C23: draw_card for a player with an empty deck returns no event, leaves the
\* hand as it is and, when there is no outcome, makes the opponent the winner
\* for DeckOut of that player; with a non-empty deck it takes the last card
\* off the deck and appends it to the hand iff the hand holds fewer than
\* max_hand_size cards, and changes nothing else.
C23_DrawCard ==
    \A p \in {0, 1} :
        LET before == PlayerOf(state, p)
            drawn == draw_card(state, p)
            after == PlayerOf(drawn.s, p)
        IN  IF before.deck = <<>>
            THEN /\ drawn.ev = None
                 /\ after = before
                 /\ PlayerOf(drawn.s, 1 - p) = PlayerOf(state, 1 - p)
                 /\ IF is_none(state.outcome)
                    THEN /\ drawn.s.outcome = Some(VictoryState(1 - p, DeckOut(p)))
                         /\ drawn.s.event_log
                                = Append(state.event_log, GameWon(1 - p, DeckOut(p)))
                    ELSE drawn.s = state
            ELSE /\ after.deck = SubSeq(before.deck, 1, Len(before.deck) - 1)
                 /\ IF Len(before.hand) < state.max_hand_size
                    THEN /\ after.hand = Append(before.hand,
                                                before.deck[Len(before.deck)])
                         /\ drawn.ev = Some(CardDrawn(p, before.deck[Len(before.deck)].id))
                    ELSE /\ after.hand = before.hand
                         /\ drawn.ev = Some(CardBurned(p, before.deck[Len(before.deck)]))
                 /\ drawn.s = [state EXCEPT
                                   !.players[unwrap(player_index(state, p))] = after]

\* a draw from an empty deck ended the game: the player whose deck is empty
\* lost by DeckOut, in a call that returned no CardDrawn event for the draw
C23_DeckOutDeclared ==
    /\ last.result = "Ok"
    /\ \E p \in {0, 1} :
           /\ state.outcome = Some(VictoryState(1 - p, DeckOut(p)))
           /\ PlayerOf(state, p).deck = <<>>
           /\ \A e \in RangeOf(returned) : e.type \notin {"CardDrawn", "CardBurned"}

\* the phase that follows phase: Mulligan, Main, Combat, End, and Main again
PhaseAfter(phase) ==
    IF phase = "Mulligan" THEN "Main"
    ELSE IF phase = "Main" THEN "Combat"
    ELSE IF phase = "Combat" THEN "End"
    ELSE "Main"

\* C28: advance_phase on an unfinished state that passes the integrity check
\* succeeds, sets the phase to the one that follows (Mulligan to Main, Main to
\* Combat, Combat to End, End to Main) and changes nothing else; no rule
\* operation takes the phase back to Mulligan.
C28_PhaseCycle ==
    /\ []((is_none(state.outcome) /\ is_none(integrity_check(state))) =>
              /\ advance_phase(engine, state).result = "Ok"
              /\ advance_phase(engine, state).s
                     = [state EXCEPT !.phase = PhaseAfter(state.phase)]
              /\ advance_phase(engine, state).eng = engine)
    /\ [][/\ (last'.op = "advance_phase" /\ last'.result = "Ok") =>
                 /\ state'.phase = PhaseAfter(state.phase)
                 /\ [state' EXCEPT !.phase = state.phase] = state
          /\ state.phase # "Mulligan" => state'.phase # "Mulligan"]_vars

\* advance_phase took a game out of phase Mulligan
C28_MulliganLeft ==
    /\ last.op = "advance_phase"
    /\ last.result = "Ok"
    /\ calls = 1
    /\ state.turn = 0
    /\ state.phase = "Main"

\* advance_phase took a game from phase End to phase Main
C28_EndToMain ==
    /\ last.op = "advance_phase"
    /\ last.result = "Ok"
    /\ calls = 2
    /\ state.phase = "Main"
    /\ state = [MidgameState("Combat") EXCEPT !.phase = "Main"]

\* the card of action in the hand of its player in s
Played(s, action) ==
    CHOOSE c \in RangeOf(PlayerOf(s, action.player_id).hand) : c.id = action.card_id

\* C29: a successful play_card takes the card out of the player's hand and
\* lowers the player's mana by the card's cost; a Unit is then the last card
\* of the player's board, exhausted, and in no other zone; a Spell is in no
\* zone of any player.
C29_CardPlayed ==
    [][(last'.op = "play_card" /\ last'.result = "Ok") =>
           LET action == last'.action[1]
               card == Played(state, action)
               before == PlayerOf(state, action.player_id)
               after == PlayerOf(state', action.player_id)
           IN  /\ \A c \in RangeOf(after.hand) : c.id # card.id
               /\ after.mana = before.mana - card.cost
               /\ before.mana >= card.cost
               /\ IF card.card_type = "Unit"
                  THEN /\ after.board # <<>>
                       /\ after.board[Len(after.board)] = [card EXCEPT !.exhausted = TRUE]
                       /\ \A k \in 1..(Len(after.board) - 1) : after.board[k].id # card.id
                       /\ \A c \in RangeOf(after.deck) : c.id # card.id
                       /\ card.id \notin
                              RangeOf(ids(PlayerOf(state', 1 - action.player_id).hand
                                          \o PlayerOf(state', 1 - action.player_id).board
                                          \o PlayerOf(state', 1 - action.player_id).deck))
                  ELSE card.id \notin ZoneIds(state')]_vars

\* a Unit was played: it is the last card of its player's board, exhausted
C29_UnitPlayed ==
    /\ last.op = "play_card"
    /\ last.result = "Ok"
    /\ PlayerOf(state, last.action[1].player_id).board # <<>>
    /\ LET board == PlayerOf(state, last.action[1].player_id).board
       IN  /\ board[Len(board)].id = last.action[1].card_id
           /\ board[Len(board)].exhausted

\* a Spell was played: it is in no zone
C29_SpellPlayed ==
    /\ last.op = "play_card"
    /\ last.result = "Ok"
    /\ last.action[1].card_id \in {Fireball.id, Meteor.id}
    /\ last.action[1].card_id \notin ZoneIds(state)

\* C30: play_card succeeds only for the current player in phase Main; attack
\* only for the current player in phase Combat against the other player;
\* mulligan only in phase Mulligan, and there for either player who has not
\* completed it, whoever the current player is.
C30_TurnAndPhaseGates ==
    /\ []((is_none(state.outcome) /\ state.phase = "Mulligan") =>
              \A p \in {0, 1} :
                  p \notin RangeOf(state.mulligan_completed) =>
                      mulligan(engine, state,
                               [player_id |-> p, replacements |-> <<>>]).result = "Ok")
    /\ [][/\ (last'.op = "play_card" /\ last'.result = "Ok") =>
                 /\ last'.action[1].player_id = state.current_player
                 /\ state.phase = "Main"
          /\ (last'.op = "attack" /\ last'.result = "Ok") =>
                 /\ last'.action[1].attacker_owner = state.current_player
                 /\ state.phase = "Combat"
                 /\ last'.action[1].defender_owner \in {0, 1}
                 /\ last'.action[1].defender_owner # last'.action[1].attacker_owner
          /\ (last'.op = "mulligan" /\ last'.result = "Ok") =>
                 state.phase = "Mulligan"]_vars

\* a player who is not the current player completed a mulligan
C30_MulliganOutOfTurn ==
    /\ last.op = "mulligan"
    /\ last.result = "Ok"
    /\ last.action[1].player_id # state.current_player
    /\ state.phase = "Mulligan"

\* play_card and attack were refused for the turn or the phase
C30_Refused ==
    /\ last.op \in {"play_card", "attack"}
    /\ last.result \in {"NotPlayerTurn", "InvalidPhase"}

----------------------------------------------------------------------------
(* Properties of the agent *)

\* the decision and the question of the last decide_action
Decided == unwrap(decision)
Asked == unwrap(asked)

\* C25: for every strategy, Random included, decide_action on a state whose
\* outcome is set returns no action and no resolution, and the evaluation is
\* +1,000,000 when the player asked for is the winner and -1,000,000 otherwise
C25_FinishedGameDecision ==
    (is_some(asked) /\ is_some(state.outcome)) =>
        /\ Decided.action = None
        /\ Decided.resolution = None
        /\ Decided.evaluation =
               IF unwrap(state.outcome).winner = Asked.player_id
               THEN 1000000 * 100 ELSE -(1000000 * 100)

\* C25 happens: an agent of strategy Random was asked for the loser of a
\* finished game
C25_RandomAskedForLoser ==
    /\ is_some(asked) /\ is_some(state.outcome)
    /\ Asked.agent.config.strategy = "Random"
    /\ unwrap(state.outcome).winner # Asked.player_id

\* for every other strategy as well, asked for the winner
C25_SearchAskedForWinner ==
    /\ is_some(asked) /\ is_some(state.outcome)
    /\ Asked.agent.config.strategy = "Control"
    /\ unwrap(state.outcome).winner = Asked.player_id

\* an agent without chance: randomness = 0, time_limit = 0, strategy not Random
Deterministic(config) ==
    config.randomness = 0 /\ config.time_limit = 0 /\ config.strategy # "Random"

\* C26: for an agent with randomness = 0, time_limit = 0 and a strategy other
\* than Random, two runs of decide_action on equal states for the same player
\* return the same action and the same evaluation: whatever the generator holds
\* and however the clock runs in the second run, it returns what the first did
C26_SameDecision ==
    (is_some(asked) /\ Deterministic(Asked.agent.config)) =>
        \A seed \in Seeds, clock \in Clocks :
            LET again == decide_action(AiAgent_with_seed(Asked.agent.config, seed),
                                       state, Asked.player_id, clock)
            IN  /\ again.action = Decided.action
                /\ again.evaluation = Decided.evaluation

\* C26 happens: such an agent searched two plies and chose among several
\* transitions
C26_ChoiceMade ==
    /\ is_some(asked) /\ Deterministic(Asked.agent.config)
    /\ is_some(Decided.action)
    /\ Decided.depth_reached = 2
    /\ Len(generate_transitions(Asked.agent.config, state, state.current_player,
                                Search(None, 0, SearchStats_new)).actions) > 2

\* a candidate of generate_transitions that the rule engine rejects after it
\* has changed the clone it was applied to
PartlyApplied(s) ==
    \E i \in DOMAIN s.players : \E k \in DOMAIN s.players[i].hand :
        LET tried == rule_applied(s, play_candidates(s, s.players[i].id,
                                                     s.players[i].hand[k])[1])
        IN  s.players[i].id = s.current_player /\ tried.result # "Ok" /\ tried.s # s

C27_CloneChanged ==
    /\ is_some(asked)
    /\ PartlyApplied(state)
    /\ Decided.nodes > 0

\* the rule engine accepts some transition of the current player: EndTurn, a
\* PlayCard or an Attack
HasLegalTransition(s) ==
    \/ rule_applied(s, GameAction_EndTurn).result = "Ok"
    \/ \E action \in PlayCardActions(s) :
           /\ action.player_id = s.current_player
           /\ rule_applied(s, GameAction_PlayCard(action)).result = "Ok"
    \/ \E action \in AttackActions(s) :
           /\ action.attacker_owner = s.current_player
           /\ rule_applied(s, GameAction_Attack(action)).result = "Ok"

\* C24: decide_action returns action = None if and only if the state has no
\* legal transition for the current player; whenever a legal transition
\* exists, also when the time limit expires during the search, the decision
\* carries an action
C24_ActionIffLegalTransition ==
    is_some(asked) => (is_none(Decided.action) <=> ~HasLegalTransition(state))

\* C24 fails: the deadline passed while the first root transition was searched,
\* and the decision carries no action although EndTurn is legal
C24_TimedOutWithoutAction ==
    /\ is_some(asked)
    /\ Decided.timed_out
    /\ Decided.nodes = 1
    /\ is_none(Decided.action)
    /\ rule_applied(state, GameAction_EndTurn).result = "Ok"

\* what holds of C24: a decision taken with no deadline, or before the deadline
\* passes, has no action if and only if there is no legal transition
C24_ActionIffLegalInTime ==
    (is_some(asked) /\ is_none(deadline_of(Asked.agent.config, Asked.clock))) =>
        (is_none(Decided.action) <=> ~HasLegalTransition(state))

----------------------------------------------------------------------------
(* Properties of the turn, of the effect stack and of the event log *)

\* what end_turn has done when it comes to its victory check: the OnTurnEnd
\* effects of the outgoing player's board resolved on the state of before
TurnEndResolved ==
    resolve_all(queue_board_effects(engine, state, "OnTurnEnd", state.current_player),
                state)

\* the victory check of end_turn finds the game decided
DecidedAtTurnEnd ==
    is_some(evaluate_victory(
                record_event(TurnEndResolved.s, TurnEnded(state.current_player))).victory)

\* player_id is in after as in before but for health and armor: not readied
NotReadied(before, after, player_id) ==
    /\ PlayerOf(after, player_id).mana = PlayerOf(before, player_id).mana
    /\ PlayerOf(after, player_id).hand = PlayerOf(before, player_id).hand
    /\ PlayerOf(after, player_id).deck = PlayerOf(before, player_id).deck
    /\ PlayerOf(after, player_id).board = PlayerOf(before, player_id).board

\* C31: end_turn runs its steps in the order: the outgoing player's OnTurnEnd
\* effects, the TurnEnded event, the victory check, the switch to the
\* opponent, the incoming player's OnTurnStart effects.  The events returned
\* start with the events of the OnTurnEnd resolution followed by TurnEnded;
\* when the victory check finds the game decided only GameWon follows, nothing
\* more is popped, current_player, turn and phase are unchanged and nobody is
\* readied; otherwise the items popped after those of the OnTurnEnd resolution
\* were queued for the incoming player as the current player
C31_EndTurnOrder ==
    [][(last'.op = "end_turn" /\ last'.result = "Ok") =>
           LET ended == TurnEndResolved
               n == Len(ended.ev)
               k == Len(ended.popped)
           IN  /\ SubSeq(returned', 1, n) = ended.ev
               /\ Len(returned') > n
               /\ returned'[n + 1] = TurnEnded(state.current_player)
               /\ SubSeq(resolved', 1, k) = ended.popped
               /\ IF DecidedAtTurnEnd
                  THEN /\ Len(returned') = n + 2
                       /\ returned'[n + 2].type = "GameWon"
                       /\ resolved' = ended.popped
                       /\ state'.current_player = state.current_player
                       /\ state'.turn = state.turn
                       /\ state'.phase = state.phase
                       /\ \A p \in {0, 1} : NotReadied(ended.s, state', p)
                  ELSE /\ Some(state'.current_player)
                              = opponent_of(state, state.current_player)
                       /\ state'.turn = state.turn + 1
                       /\ \A j \in (k + 1)..Len(resolved') :
                              /\ resolved'[j].trigger # "OnTurnEnd"
                              /\ resolved'[j].trigger = "OnTurnStart" =>
                                     \E c \in RangeOf(PlayerOf(ended.s,
                                                  state'.current_player).board) :
                                         resolved'[j].source_card = Some(c.id)
                       /\ \A j \in (n + 2)..Len(returned') :
                              returned'[j].type # "TurnEnded"]_vars

\* C31 happens: the victory check of an end_turn found the game decided, by an
\* effect resolved before TurnEnded
C31_DecidedAtVictoryCheck ==
    /\ last.op = "end_turn"
    /\ last.result = "Ok"
    /\ is_some(state.outcome)
    /\ Len(returned) >= 2
    /\ returned[Len(returned)].type = "GameWon"
    /\ returned[Len(returned) - 1] = TurnEnded(state.current_player)

\* an end_turn went on to the incoming player's OnTurnStart effects, after an
\* OnTurnEnd effect of the outgoing player
C31_BothResolved ==
    /\ last.op = "end_turn"
    /\ last.result = "Ok"
    /\ \E i, j \in DOMAIN resolved :
           /\ i < j
           /\ resolved[i].trigger = "OnTurnEnd" /\ resolved[i].applied
           /\ resolved[j].trigger = "OnTurnStart" /\ resolved[j].applied

\* what start_turn(player_id) has done when it comes to ready the player:
\* current_player and phase set, the OnTurnStart effects of the player's board
\* resolved
TurnStartEffects(player_id) ==
    LET s1 == [state EXCEPT !.current_player = player_id, !.phase = "Main"]
    IN  resolve_all(queue_board_effects(engine, s1, "OnTurnStart", player_id), s1)

\* C32: start_turn(p) on an unfinished valid state with p an existing player
\* sets current_player = p and phase = Main whatever they were, leaves turn
\* unchanged, and resolves the OnTurnStart effects of the units on p's board
\* before it readies p: what the resolution logged comes first in the log, its
\* events come first in the events returned, and p is readied on the state it
\* left (mana one higher, up to 10, every unit ready, one card drawn from a
\* non-empty deck); when the effects decide the game p is not readied, the
\* state is as the resolution left it.  For an unknown p it fails with
\* PlayerNotFound and changes nothing
C32_StartTurn ==
    [][(last'.op = "start_turn" /\ last'.result \in {"Ok", "PlayerNotFound"}) =>
           \E p \in PlayerIds :
               /\ start_turn(engine, state, p).s = state'
               /\ start_turn(engine, state, p).result = last'.result
               /\ IF ~has_player(state, p)
                  THEN /\ last'.result = "PlayerNotFound"
                       /\ state' = state
                       /\ engine' = engine
                  ELSE LET res == TurnStartEffects(p)
                           before == PlayerOf(res.s, p)
                           after == PlayerOf(state', p)
                       IN  /\ last'.result = "Ok"
                           /\ last'.action = Some(p)
                           /\ state'.current_player = p
                           /\ state'.phase = "Main"
                           /\ state'.turn = state.turn
                           /\ resolved' = res.popped
                           /\ SubSeq(returned', 1, Len(res.ev)) = res.ev
                           /\ SubSeq(state'.event_log, 1, Len(res.s.event_log))
                                  = res.s.event_log
                           /\ IF is_finished(res.s)
                              THEN state' = res.s /\ returned' = res.ev
                              ELSE /\ after.mana = Min(before.mana + 1, 10)
                                   /\ \A i \in DOMAIN after.board :
                                          ~after.board[i].exhausted
                                   /\ Len(after.deck)
                                          = Max(Len(before.deck) - 1, 0)]_vars

\* C32 happens: the OnTurnStart effect of a unit of p decided the game in
\* start_turn(p), and p, who has a card in the deck, was not readied
C32_DecidedBeforeReady ==
    /\ last.op = "start_turn"
    /\ last.result = "Ok"
    /\ is_some(state.outcome)
    /\ PlayerOf(state, unwrap(last.action)).deck # <<>>
    /\ \E j \in DOMAIN resolved : resolved[j].trigger = "OnTurnStart" /\ resolved[j].applied

\* start_turn resolved an OnTurnStart effect that left the game undecided, and
\* went on to ready the player
C32_TurnTaken ==
    /\ last.op = "start_turn"
    /\ last.result = "Ok"
    /\ is_none(state.outcome)
    /\ \E j \in DOMAIN resolved : resolved[j].trigger = "OnTurnStart" /\ resolved[j].applied

\* start_turn was called for a player the game does not have
C32_UnknownPlayer ==
    last.op = "start_turn" /\ last.result = "PlayerNotFound"

\* C33: effect resolution declares DeckOut only for a player whose deck was not
\* empty when the DrawCard was applied.  play_card draws no card but through
\* the effects it resolves, so a deck that is empty before the call is empty
\* at resolution time: no play_card that started with player p's deck empty
\* ends with p having lost by DeckOut
C33_NoDrawFromEmptyDeck ==
    [][(last'.op = "play_card" /\ last'.result = "Ok" /\ is_none(state.outcome)) =>
           \A p \in {0, 1} :
               state'.outcome = Some(VictoryState(1 - p, DeckOut(p)))
                   => PlayerOf(state, p).deck # <<>>]_vars

\* C33 fails: the Composite effect of the Meteor was applied for a player with
\* an empty deck, no card was drawn or burned, and the player lost by DeckOut
C33_CompositeDrewFromEmptyDeck ==
    /\ last.op = "play_card"
    /\ last.result = "Ok"
    /\ unwrap(last.action).card_id = Meteor.id
    /\ \E j \in DOMAIN resolved :
           resolved[j].source_card = Some(Meteor.id) /\ resolved[j].applied
    /\ \A j \in DOMAIN returned : returned[j].type \notin {"CardDrawn", "CardBurned"}
    /\ LET p == unwrap(last.action).player_id
       IN  /\ PlayerOf(state, p).deck = <<>>
           /\ state.outcome = Some(VictoryState(1 - p, DeckOut(p)))

\* a DrawCard effect on its own is not applied for a player whose deck is
\* empty: the play of the Scholar with an empty deck pops the effect without
\* applying it, and nobody loses by DeckOut
C33_LoneDrawCardSkipped ==
    [][(/\ last'.op = "play_card"
        /\ last'.result = "Ok"
        /\ unwrap(last'.action).card_id = Scholar.id
        /\ PlayerOf(state, unwrap(last'.action).player_id).deck = <<>>) =>
           /\ \A j \in DOMAIN resolved' :
                  resolved'[j].source_card = Some(Scholar.id) => ~resolved'[j].applied
           /\ state'.outcome = state.outcome]_vars

\* the Scholar was played by a player whose deck is empty
C33_ScholarPlayedOnEmptyDeck ==
    /\ last.op = "play_card"
    /\ last.result = "Ok"
    /\ unwrap(last.action).card_id = Scholar.id
    /\ PlayerOf(state, unwrap(last.action).player_id).deck = <<>>
    /\ \E j \in DOMAIN resolved : resolved[j].source_card = Some(Scholar.id)

\* the transitions of s in the order of the generator, with no deadline and
\* randomness 0 (the generator is not read)
Transitions(config, s) ==
    generate_transitions(config, s, s.current_player,
                         Search(None, 0, SearchStats_new)).actions

\* the minimax value of s to depth plies for root_player, every transition
\* searched: the maximum over the transitions where root_player is to act, the
\* minimum where the other player is, the evaluation at depth 0, on a finished
\* state and on a state without transitions
RECURSIVE exhaustive_value(_, _, _, _)
RECURSIVE exhaustive_best(_, _, _, _, _, _)
exhaustive_value(config, s, depth, root_player) ==
    IF depth = 0 \/ is_finished(s) \/ Transitions(config, s) = <<>>
    THEN evaluate(config, s, root_player)
    ELSE exhaustive_best(config, Transitions(config, s), 1, depth - 1, root_player,
                         s.current_player = root_player)

exhaustive_best(config, transitions, i, depth, root_player, maximizing) ==
    LET value == exhaustive_value(config, transitions[i][2], depth, root_player)
        rest == exhaustive_best(config, transitions, i + 1, depth, root_player,
                                maximizing)
    IN  IF i = Len(transitions) THEN value
        ELSE IF maximizing THEN Max(value, rest) ELSE Min(value, rest)

\* the number of nodes below the root that an unpruned search to depth plies
\* visits
RECURSIVE exhaustive_nodes(_, _, _)
exhaustive_nodes(config, s, depth) ==
    IF depth = 0 \/ is_finished(s) THEN 0
    ELSE sum([i \in DOMAIN Transitions(config, s) |->
                 1 + exhaustive_nodes(config, Transitions(config, s)[i][2], depth - 1)])

\* decide_action was asked for the player to act, with randomness 0, no time
\* limit and a strategy other than Random
AskedToSearch ==
    /\ is_some(asked)
    /\ last.op = "decide_action"
    /\ Deterministic(Asked.agent.config)
    /\ Asked.agent.config.depth >= 1
    /\ Asked.player_id = state.current_player

\* C34: with randomness = 0, time_limit = 0, config.depth at least 1, a
\* strategy other than Random and player_id the current player, the evaluation
\* decide_action returns is the exhaustive, unpruned minimax value of the state
\* to depth config.depth under the same transition generator and evaluation,
\* and the action returned is a root action whose state has this value to
\* depth config.depth - 1 (no action when the state has no transition)
C34_ExhaustiveMinimaxValue ==
    AskedToSearch =>
        LET config == Asked.agent.config
            p == Asked.player_id
        IN  /\ Decided.evaluation = exhaustive_value(config, state, config.depth, p)
            /\ ~Decided.timed_out
            /\ IF is_finished(state) \/ Transitions(config, state) = <<>>
               THEN Decided.action = None
               ELSE \E i \in DOMAIN Transitions(config, state) :
                        /\ Decided.action = Some(Transitions(config, state)[i][1])
                        /\ exhaustive_value(config, Transitions(config, state)[i][2],
                                            config.depth - 1, p)
                               = Decided.evaluation

\* C34 happens: a search of two plies was cut by alpha-beta (it visited fewer
\* nodes than the unpruned search) and returned an action
C34_PrunedSearch ==
    /\ AskedToSearch
    /\ Asked.agent.config.depth = 2
    /\ is_some(Decided.action)
    /\ Decided.nodes < exhaustive_nodes(Asked.agent.config, state, 2)

\* a search of two plies that visited every node
C34_FullSearch ==
    /\ AskedToSearch
    /\ Asked.agent.config.depth = 2
    /\ is_some(Decided.action)
    /\ Decided.nodes = exhaustive_nodes(Asked.agent.config, state, 2)
    /\ Decided.nodes > Len(Transitions(Asked.agent.config, state))

\* decide_action was asked for the player who is not to act
AskedOutOfTurn ==
    /\ is_some(asked)
    /\ last.op = "decide_action"
    /\ Asked.player_id # state.current_player

\* C35: asked for a player p that is not state.current_player, the only action
\* decide_action can return is EndTurn; it returns no PlayCard or Attack of
\* p's opponent
C35_OnlyEndTurnOutOfTurn ==
    (AskedOutOfTurn /\ is_some(Decided.action)) =>
        unwrap(Decided.action) = GameAction_EndTurn

\* C35 fails: asked for the player who is not to act, a searching agent
\* returned a PlayCard of the current player, the opponent of the player asked
\* for
C35_OpponentCardPlayed ==
    /\ AskedOutOfTurn
    /\ Asked.agent.config.strategy # "Random"
    /\ is_some(Decided.action)
    /\ unwrap(Decided.action).type = "PlayCard"
    /\ unwrap(Decided.action).action.player_id = state.current_player

\* the same with an Attack, and with the Random strategy
C35_OpponentAttacked ==
    /\ AskedOutOfTurn
    /\ is_some(Decided.action)
    /\ unwrap(Decided.action).type = "Attack"
    /\ unwrap(Decided.action).action.attacker_owner = state.current_player

C35_RandomOpponentCardPlayed ==
    /\ AskedOutOfTurn
    /\ Asked.agent.config.strategy = "Random"
    /\ is_some(Decided.action)
    /\ unwrap(Decided.action).type = "PlayCard"

\* whoever is asked for, the acting player of a PlayCard or Attack returned is
\* the current player: the transitions are generated for state.current_player
C35_ActionsOfCurrentPlayer ==
    (is_some(asked) /\ last.op = "decide_action" /\ is_some(Decided.action)) =>
        /\ unwrap(Decided.action).type = "PlayCard"
               => unwrap(Decided.action).action.player_id = state.current_player
        /\ unwrap(Decided.action).type = "Attack"
               => unwrap(Decided.action).action.attacker_owner = state.current_player

\* the configurations generate_transitions tells apart: without and with the
\* shuffle
ShuffleConfigs == {AiConfig(1, randomness, 0, "Aggressive") : randomness \in {0, 60}}

\* generate_transitions(state, actor, deadline) on the current state
Generated(config, actor, seed, clock) ==
    generate_transitions(config, state, actor,
                         Search(clock, seed, SearchStats_new)).actions

\* the configuration, generator and deadline of the search decide_action made
\* on the current state; every one of the model on a state not yet searched
GenerateInputs ==
    IF last.op = "decide_action"
    THEN {<<Asked.agent.config, Asked.agent.rng,
            deadline_of(Asked.agent.config, Asked.clock)>>}
    ELSE ShuffleConfigs \X Seeds \X Clocks

\* C36: every (action, state') pair generate_transitions returns is legal:
\* the rule operation of the action, by a new RuleEngine on the input state,
\* succeeds and leaves state'; no action occurs twice; PlayCard actions occur
\* only in phase Main and Attack actions only in phase Combat; with no
\* deadline EndTurn is among the transitions of every unfinished state that
\* passes integrity_check.  Hence the action decide_action chooses applies
\* successfully to the state it was computed from, and apply_ai_move returns Ok
C36_TransitionsLegal ==
    /\ \A input \in GenerateInputs, actor \in {0, 1} :
           LET g == Generated(input[1], actor, input[2], input[3])
               clock == input[3]
           IN  /\ \A i \in DOMAIN g :
                      /\ rule_applied(state, g[i][1]).result = "Ok"
                      /\ rule_applied(state, g[i][1]).s = g[i][2]
                      /\ g[i][1].type = "PlayCard" => state.phase = "Main"
                      /\ g[i][1].type = "Attack" => state.phase = "Combat"
                      /\ \A j \in DOMAIN g : g[i][1] = g[j][1] => i = j
               /\ (clock = None /\ ~is_finished(state) /\ is_none(integrity_check(state)))
                      => \E i \in DOMAIN g : g[i][1] = GameAction_EndTurn
    /\ (last.op = "decide_action" /\ is_some(Decided.action)) =>
           /\ rule_applied(state, unwrap(Decided.action)).result = "Ok"
           /\ Decided.resolution =
                  Some(RuleResolution_new(rule_applied(state, unwrap(Decided.action)).s,
                                          rule_applied(state, unwrap(Decided.action)).ev))
    /\ last.op = "apply_ai_move" => last.result = "Ok"

\* C36 happens: in phase Combat decide_action chose an Attack among
\* transitions that include EndTurn
C36_AttackChosenInCombat ==
    /\ last.op = "decide_action"
    /\ state.phase = "Combat"
    /\ is_some(Decided.action)
    /\ unwrap(Decided.action).type = "Attack"
    /\ \E i \in DOMAIN Generated(Asked.agent.config, state.current_player, 0, None) :
           Generated(Asked.agent.config, state.current_player, 0, None)[i][1]
               = GameAction_EndTurn

\* in phase Main a candidate was rejected (the Fireball without a target) and
\* a PlayCard was chosen
C36_CandidateRejected ==
    /\ last.op = "decide_action"
    /\ state.phase = "Main"
    /\ PartlyApplied(state)
    /\ is_some(Decided.action)
    /\ unwrap(Decided.action).type = "PlayCard"

\* after a move applied by apply_ai_move the state has transitions again
C36_MoveAppliedThenTransitions ==
    /\ last.op = "apply_ai_move"
    /\ is_some(last.action)
    /\ Len(Generated(AiConfig(1, 0, 0, "Aggressive"), state.current_player, 0, None)) > 1

\* the same of every state the rule operations reach: end_turn by a new
\* RuleEngine succeeds on every unfinished state that passes integrity_check,
\* and what generate_transitions returns with no deadline is legal
C36_EndTurnAlwaysLegal ==
    (~is_finished(state) /\ is_none(integrity_check(state))) =>
        LET g == Generated(AiConfig(1, 0, 0, "Aggressive"), state.current_player, 0, None)
        IN  /\ rule_applied(state, GameAction_EndTurn).result = "Ok"
            /\ \E i \in DOMAIN g : g[i][1] = GameAction_EndTurn
            /\ \A i \in DOMAIN g : rule_applied(state, g[i][1]).result = "Ok"

\* the number of cards on the boards of s, and the number of OnDeath effects
\* these cards have
BoardCards(s) == sum([i \in DOMAIN s.players |-> Len(s.players[i].board)])

BoardDeathEffects(s) ==
    sum([i \in DOMAIN s.players |->
            sum([k \in DOMAIN s.players[i].board |->
                    Cardinality({e \in DOMAIN s.players[i].board[k].effects :
                        s.players[i].board[k].effects[e].trigger = "OnDeath"})])])

\* the items in popped that were pushed after the push numbered order: the
\* items resolve_all queued itself
CascadedPushes(popped, order) == {j \in DOMAIN popped : popped[j].order > order}

\* the CardDestroyed events among events
Destroyed(events) == {j \in DOMAIN events : events[j].type = "CardDestroyed"}

\* C37, as the code has it: resolve_all ends with an empty stack, having
\* popped every item that was queued and every item it queued itself; an item
\* it queued is an OnDeath effect of a card destroyed in the call, no card is
\* added to a board, at most as many cards are destroyed as the boards held,
\* and the number of cascaded pushes is at most the number of OnDeath effects
\* of the cards the boards held (a destroyed card pushes one item for each of
\* its OnDeath effects)
C37_ResolveAllTerminates ==
    [][last'.op = "resolve_all" =>
           LET cascaded == CascadedPushes(resolved', engine.order)
           IN  /\ engine'.heap = {}
               /\ Len(resolved') = Cardinality(engine.heap) + Cardinality(cascaded)
               /\ engine'.order = engine.order + Cardinality(cascaded)
               /\ \A j \in cascaded :
                      /\ resolved'[j].trigger = "OnDeath"
                      /\ \E d \in Destroyed(returned') :
                             /\ resolved'[j].source_card = Some(returned'[d].card.id)
                             /\ \E e \in DOMAIN returned'[d].card.effects :
                                    returned'[d].card.effects[e].id = resolved'[j].entry_id
               /\ BoardCards(state') = BoardCards(state) - Cardinality(Destroyed(returned'))
               /\ Cardinality(Destroyed(returned')) <= BoardCards(state)
               /\ Cardinality(cascaded) <= BoardDeathEffects(state)]_vars

\* C37 as stated: the number of cascaded pushes of a resolve_all is at most
\* the number of cards on the boards
C37_PushesBoundedByCards ==
    [][last'.op = "resolve_all" =>
           Cardinality(CascadedPushes(resolved', engine.order)) <= BoardCards(state)]_vars

\* C37 happens: resolve_all destroyed the two cards of the boards, queued and
\* resolved the three OnDeath effects they had, and left the stack empty
C37_ThreePushesForTwoCards ==
    /\ last.op = "resolve_all"
    /\ engine.heap = {}
    /\ BoardCards(state) = 0
    /\ Cardinality(Destroyed(returned)) = 2
    /\ Cardinality({j \in DOMAIN resolved : resolved[j].trigger = "OnDeath"}) = 3

\* the stack is empty after every resolve_all of the rule operations as well
C37_RuleOperationsResolveAll ==
    [][(last'.result = "Ok" /\ last'.op \in {"play_card", "start_turn", "end_turn"})
           => engine'.heap = {}]_vars

\* the ids of the cards in the hand, on the board and in the deck of player_id
OwnIds(s, player_id) ==
    RangeOf(ids(PlayerOf(s, player_id).hand \o PlayerOf(s, player_id).board
                \o PlayerOf(s, player_id).deck))

\* the events a step appended to the event log
Logged_in_step(before, after) ==
    SubSeq(after.event_log, Len(before.event_log) + 1, Len(after.event_log))

\* the card id left the game in the step by a burned draw or by the
\* destruction of a unit
BurnedOrDestroyed(id, events) ==
    \E j \in DOMAIN events :
        events[j].type \in {"CardBurned", "CardDestroyed"} /\ events[j].card.id = id

\* no card is created, no card changes sides, and a card id that leaves the
\* zones was burned, destroyed, or is the Spell that play_card played
CardsConserved(before, after, op, result, action) ==
    /\ ZoneIds(after) \subseteq ZoneIds(before)
    /\ \A p \in {0, 1} : OwnIds(after, p) \subseteq OwnIds(before, p)
    /\ \A id \in ZoneIds(before) \ ZoneIds(after) :
           \/ BurnedOrDestroyed(id, Logged_in_step(before, after))
           \/ /\ op = "play_card"
              /\ result = "Ok"
              /\ unwrap(action).card_id = id
              /\ \E k \in DOMAIN PlayerOf(before, unwrap(action).player_id).hand :
                     /\ PlayerOf(before, unwrap(action).player_id).hand[k].id = id
                     /\ PlayerOf(before, unwrap(action).player_id).hand[k].card_type
                            = "Spell"

\* C38: no rule operation creates a card: after every operation, successful or
\* not, the card ids in the hands, boards and decks are a subset of those
\* before it; an id leaves the set only by a burned draw, the destruction of a
\* unit or the play of a Spell; no card moves into a zone of the other player
C38_CardsNeverCreatedOrLost ==
    [][CardsConserved(state, state', last'.op, last'.result, last'.action)]_vars

\* C38 fails: in the game that started with the Shadowblade in player 1's hand
\* and the Golem in the deck, play_card returned InvalidTarget for the
\* Shadowblade, a Unit, played without a target, and the card is in no hand,
\* board or deck, though it was neither burned nor destroyed nor played
C38_UnitLostByFailedPlay ==
    /\ last.op = "play_card"
    /\ last.result = "InvalidTarget"
    /\ Golem.id \in RangeOf(ids(PlayerOf(state, 1).hand))
    /\ Shadowblade.id \notin ZoneIds(state)
    /\ ~BurnedOrDestroyed(Shadowblade.id, state.event_log)
    /\ \A j \in DOMAIN state.event_log :
           state.event_log[j].type = "CardPlayed"
               => state.event_log[j].card_id # Shadowblade.id

\* the same holds of every operation that returns Ok
C38_CardsConservedOnSuccess ==
    [][last'.result = "Ok" =>
           CardsConserved(state, state', last'.op, last'.result, last'.action)]_vars

\* cards left the game in the three ways: a Spell was played and destroyed a
\* unit in one call, and a draw was burned in another
C38_SpellPlayedUnitDestroyed ==
    /\ last.op = "play_card"
    /\ last.result = "Ok"
    /\ unwrap(last.action).card_id \in {Fireball.id, Meteor.id}
    /\ unwrap(last.action).card_id \notin ZoneIds(state)
    /\ \E j \in DOMAIN returned :
           returned[j].type = "CardDestroyed" /\ returned[j].card.id \notin ZoneIds(state)

C38_DrawBurned ==
    /\ last.result = "Ok"
    /\ \E j \in DOMAIN state.event_log :
           /\ state.event_log[j].type = "CardBurned"
           /\ state.event_log[j].card.id \notin ZoneIds(state)

\* C39: for every successful rule operation the event_log before the call is a
\* prefix of the event_log after it, and the suffix the call appended is
\* exactly the list of events the call returns, in the same order
C39_LogSuffixIsReturned ==
    [][last'.result = "Ok" => state'.event_log = state.event_log \o returned']_vars

\* C39 fails: the first call of a game was a start_turn that readied the
\* player with a draw; CardDrawn is in the log and not among the events
\* returned
C39_TurnStartDrawNotReturned ==
    /\ calls = 1
    /\ last.op = "start_turn"
    /\ last.result = "Ok"
    /\ \E j \in DOMAIN state.event_log : state.event_log[j].type = "CardDrawn"
    /\ \A j \in DOMAIN returned : returned[j].type # "CardDrawn"

\* the first call of a game was an attack that decided it: the log has GameWon
\* before the DamageResolved event of the damage, the events returned have it
\* after
C39_GameWonBeforeItsDamage ==
    /\ calls = 1
    /\ last.op = "attack"
    /\ last.result = "Ok"
    /\ \E i, j \in DOMAIN state.event_log :
           /\ i < j
           /\ state.event_log[i].type = "GameWon"
           /\ state.event_log[j].type = "DamageResolved"
    /\ \E i, j \in DOMAIN returned :
           /\ i < j
           /\ returned[i].type = "DamageResolved"
           /\ returned[j].type = "GameWon"
    /\ Cardinality(Logged(state, "GameWon")) = 1

\* what holds: the log before a call, successful or not, is a prefix of the
\* log after it; every event a successful call returns is in the suffix it
\* appended, and the suffix holds besides them only CardDrawn, CardBurned and
\* GameWon events; a successful call that neither readies a player nor decides the
\* game appends exactly what it returns
C39_LogIsAppendedTo ==
    [][/\ SubSeq(state'.event_log, 1, Len(state.event_log)) = state.event_log
       /\ last'.result = "Ok" =>
              LET suffix == Logged_in_step(state, state')
              IN  /\ \A j \in DOMAIN returned' :
                         \E k \in DOMAIN suffix : suffix[k] = returned'[j]
                  /\ \A k \in DOMAIN suffix :
                         \/ \E j \in DOMAIN returned' : suffix[k] = returned'[j]
                         \/ suffix[k].type \in {"CardDrawn", "CardBurned", "GameWon"}
                  /\ (last'.op \in {"play_card", "attack", "mulligan", "advance_phase"}
                      /\ is_none(state'.outcome))
                         => suffix = returned']_vars

\* a successful call that decided nothing appended to a log that was not
\* empty exactly the events it returned
C39_SuffixReturned ==
    /\ calls >= 2
    /\ last.op = "play_card"
    /\ last.result = "Ok"
    /\ is_none(state.outcome)
    /\ Len(returned) >= 2
    /\ Len(state.event_log) > Len(returned)

\* the first GameWon event of the log of s
FirstDeclared(s) ==
    s.event_log[CHOOSE j \in Logged(s, "GameWon") : \A k \in Logged(s, "GameWon") : j <= k]

\* the ids of the effects of the model that can always trigger: DirectDamage
\* and Heal effects without a condition
AlwaysTriggered ==
    {e.id : e \in {x \in EffectPool \cup RangeOf(Golem.effects) \cup RangeOf(Totem.effects) :
                       x.kind.type \in {"DirectDamage", "Heal"} /\ is_none(x.condition)}}

\* C40: an outcome does not stop resolve_all: it pops every item, those
\* popped after the outcome was set as well, applies every DirectDamage and
\* Heal effect it pops, and what it pops, applies and does to the players
\* (health, hands, decks, boards) is what it does from the same state with no
\* outcome.  The
\* outcome is the winner and reason of the first declaration, GameWon is
\* logged once, and an outcome set before the call is unchanged by it, also
\* when a later effect brings the declared winner's health to 0 or below
C40_ResolvedPastOutcome ==
    [][last'.op = "resolve_all" =>
           LET undecided == resolve_all(engine, [state EXCEPT !.outcome = None])
           IN  /\ engine'.heap = {}
               /\ \A item \in engine.heap :
                      \E j \in DOMAIN resolved' : resolved'[j].order = item.order
               /\ \A j \in DOMAIN resolved' :
                      resolved'[j].entry_id \in AlwaysTriggered => resolved'[j].applied
               /\ resolved' = undecided.popped
               /\ state'.players = undecided.s.players
               /\ \A j \in DOMAIN returned' :
                      \E k \in DOMAIN undecided.ev : undecided.ev[k] = returned'[j]
               /\ is_some(state.outcome) => state'.outcome = state.outcome
               /\ is_some(state'.outcome) =>
                      /\ Cardinality(Logged(state', "GameWon")) = 1
                      /\ unwrap(state'.outcome)
                             = VictoryState(FirstDeclared(state').winner,
                                            FirstDeclared(state').reason)]_vars

\* C40 happens: in one resolve_all the first effect took player 1 to health 0
\* (player 0 won by HealthDepleted of player 1), the effects still pending
\* were resolved after it (their events follow GameWon in the log), and one
\* of them took player 0, the declared winner, to health 0
C40_WinnerAtZeroHealth ==
    /\ last.op = "resolve_all"
    /\ engine.heap = {}
    /\ state.outcome = Some(VictoryState(0, HealthDepleted(1)))
    /\ PlayerOf(state, 0).health <= 0
    /\ Len(returned) = Len(state.event_log) - 1
    /\ \E j \in DOMAIN state.event_log :
           /\ state.event_log[j].type = "GameWon"
           /\ \E k \in (j + 2)..Len(state.event_log) :
                  /\ state.event_log[k].type = "DamageResolved"
                  /\ state.event_log[k].target_player = 0

\* in the rule operations: end_turn resolved the Footman's OnTurnEnd Heal
\* after the Archer's damage had decided the game
C40_HealedAfterGameWon ==
    /\ last.op = "end_turn"
    /\ last.result = "Ok"
    /\ is_some(state.outcome)
    /\ \E j, k \in DOMAIN state.event_log :
           /\ j < k
           /\ state.event_log[j].type = "GameWon"
           /\ state.event_log[k].type = "CardHealed"

====
